---- MODULE Spec2Model ----
(***************************************************************************)
(* Model of the Fat-Cat pipeline engine: the anchor file store             *)
(* (workflow/finish_form_utils.py), the memory bridge                      *)
(* (Memory_system/memory_bridge.py), the pipeline runner                   *)
(* (workflow/full_pipeline_runner.py), the Stage 4 tool loop               *)
(* (stage4_agent/Executor_agent.py) and the watcher                        *)
(* (Watcher_Agent/Watcher_agent.py).                                       *)
(*                                                                         *)
(* A text (a Python str or the content of the collaboration form) is a     *)
(* sequence of tokens.  A token is a record [k, v, n] (n is 0 unless       *)
(* stated otherwise):                                                      *)
(*   [k |-> "START", v |-> a]  the marker  <!-- a_START -->                *)
(*   [k |-> "END",   v |-> a]  the marker  <!-- a_END -->                  *)
(*   [k |-> "WS",    v |-> w]  one whitespace character: "\n", "\r", " "   *)
(*   [k |-> "CH",    v |-> c]  a piece of non-blank text free of markers   *)
(*   [k |-> "PH",    v |-> p]  the placeholder text (a backquoted      *)
(*                             three-character CJK word)                   *)
(*   [k |-> "HDR",   v |-> h]  the heading text h, e.g. ## Live Execution  *)
(*                             Plan                                        *)
(*   [k |-> "ITER",  v |-> t, n |-> i]  the heading of a tool-log entry,   *)
(*                             ### Iteration i | Tool: t                   *)
(*   [k |-> "SEC",   v |-> h]  a context section heading, ## h             *)
(*   [k |-> "FROM",  v |-> s]  the source line under a section heading     *)
(*   [k |-> "OPEN"] [k |-> "CLOSE"]  the [TOOL_CALL] and [/TOOL_CALL] tags *)
(*   [k |-> "COLON"]           the colon of a key: value line              *)
(*   [k |-> "JSTR",  v |-> s]  the JSON string literal "s"                 *)
(*   [k |-> "FENCE", v |-> f]  a markdown code fence, bare or tagged plan  *)
(*   [k |-> "PROMPT", v |-> p, n |-> i]  the fixed head (with iteration i) *)
(*                             and tail of the iteration prompt            *)
(*   [k |-> "RESULT", v |-> t] the head of a tool result message,          *)
(*                             [TOOL_RESULT] / tool: t                     *)
(*   [k |-> "AUDIT", v |-> t]  the fixed head of a watcher audit entry     *)
(***************************************************************************)
EXTENDS FiniteSets, Integers, Sequences, TLC

START(a) == [k |-> "START", v |-> a, n |-> 0]
END(a) == [k |-> "END", v |-> a, n |-> 0]
Ch(c) == [k |-> "CH", v |-> c, n |-> 0]
Hdr(h) == [k |-> "HDR", v |-> h, n |-> 0]
NL == [k |-> "WS", v |-> "\n", n |-> 0]
CR == [k |-> "WS", v |-> "\r", n |-> 0]
SP == [k |-> "WS", v |-> " ", n |-> 0]

\* finish_form_utils.py:9  DEFAULT_PLACEHOLDER; one token stands for the
\* whole placeholder text
DEFAULT_PLACEHOLDER == <<[k |-> "PH", v |-> "placeholder", n |-> 0]>>

\* finish_form_utils.py:10
LIVE_PLAN_MARKER == "LIVE_EXECUTION_PLAN"

\* the header update_live_plan passes (finish_form_utils.py:48)
LIVE_PLAN_HEADER == "## Live Execution Plan"

\* "no header" (header=None)
NoHeader == ""

SetMin(S) == CHOOSE x \in S : \A y \in S : x <= y
SetMax(S) == CHOOSE x \in S : \A y \in S : y <= x

IsWS(t) == t.k = "WS"

\* str.strip(): drop leading and trailing whitespace
strip(s) ==
    LET keep == {i \in 1..Len(s) : ~IsWS(s[i])}
    IN  IF keep = {} THEN <<>> ELSE SubSeq(s, SetMin(keep), SetMax(keep))

\* str.rstrip()
rstrip(s) ==
    LET keep == {i \in 1..Len(s) : ~IsWS(s[i])}
    IN  IF keep = {} THEN <<>> ELSE SubSeq(s, 1, SetMax(keep))

\* str.rstrip("\n")
rstrip_nl(s) ==
    LET keep == {i \in 1..Len(s) : s[i] # NL}
    IN  IF keep = {} THEN <<>> ELSE SubSeq(s, 1, SetMax(keep))

\* str.lstrip("\n")
lstrip_nl(s) ==
    LET keep == {i \in 1..Len(s) : s[i] # NL}
    IN  IF keep = {} THEN <<>> ELSE SubSeq(s, SetMin(keep), Len(s))

\* str.find(tok, from): first index >= from holding tok, 0 when there is none
\* (indices are 1-based; Python's -1 is 0 here)
find(s, tok, from) ==
    LET hits == {i \in from..Len(s) : s[i] = tok}
    IN  IF hits = {} THEN 0 ELSE SetMin(hits)

\* the tokens of s at the positions that satisfy Keep, in their order
keep_where(s, Keep(_)) ==
    LET at == [i \in 1..Len(s) |-> [i |-> i, t |-> s[i]]]
        kept == SelectSeq(at, LAMBDA e : Keep(e.i))
    IN  [j \in 1..Len(kept) |-> kept[j].t]

\* Path.read_text(): text mode with universal newlines, so "\r\n" and a lone
\* "\r" both arrive as "\n": the "\n" after a "\r" goes, each "\r" becomes "\n"
read_text(bytes) ==
    LET lines == [i \in 1..Len(bytes) |-> IF bytes[i] = CR THEN NL ELSE bytes[i]]
    IN  keep_where(lines, LAMBDA i : ~(i > 1 /\ bytes[i] = NL /\ bytes[i - 1] = CR))

\* str.replace("\r\n", "\n"): the "\r" before a "\n" goes
normalize_crlf(s) ==
    keep_where(s, LAMBDA i : ~(s[i] = CR /\ i < Len(s) /\ s[i + 1] = NL))

\* the span of re.search(START.*?END, DOTALL): the first START and the first
\* END after it; <<0, 0>> when the pattern does not match
match_block(text, marker_name) ==
    LET i == find(text, START(marker_name), 1)
        j == IF i = 0 THEN 0 ELSE find(text, END(marker_name), i + 1)
    IN  IF i = 0 \/ j = 0 THEN <<0, 0>> ELSE <<i, j>>

\* read_form_section on an existing file: found is FALSE for Python's None
read_form_section(bytes, marker_name) ==
    LET text == normalize_crlf(read_text(bytes))
        m == match_block(text, marker_name)
    IN  IF m[1] = 0
        THEN [found |-> FALSE, text |-> <<>>]
        ELSE [found |-> TRUE, text |-> strip(SubSeq(text, m[1] + 1, m[2] - 1))]

\* read_live_plan
read_live_plan(bytes) == read_form_section(bytes, LIVE_PLAN_MARKER)

\* _sanitize_content
_sanitize_content(content, placeholder) ==
    IF strip(content) # <<>> THEN strip(content) ELSE placeholder

\* update_form_section on an existing file: the bytes written back
update_form_section(bytes, marker_name, content, header) ==
    LET normalized == normalize_crlf(read_text(bytes))
        sanitized == _sanitize_content(content, DEFAULT_PLACEHOLDER)
        replacement_block ==
            <<START(marker_name), NL>> \o sanitized \o <<NL, END(marker_name)>>
        m == match_block(normalized, marker_name)
        appended == rstrip_nl(normalized) \o <<NL, NL>> \o replacement_block \o <<NL>>
        h == IF header = NoHeader THEN 0 ELSE find(normalized, Hdr(header), 1)
        nl == IF h = 0 THEN 0 ELSE find(normalized, NL, h + 1)
        insert_pos == IF nl = 0 THEN h ELSE nl
    IN  IF m[1] # 0
        THEN SubSeq(normalized, 1, m[1] - 1) \o replacement_block
                 \o SubSeq(normalized, m[2] + 1, Len(normalized))
        ELSE IF h # 0
             THEN rstrip_nl(SubSeq(normalized, 1, insert_pos)) \o <<NL, NL>>
                      \o replacement_block \o <<NL>>
                      \o lstrip_nl(SubSeq(normalized, insert_pos + 1, Len(normalized)))
             ELSE appended

\* update_live_plan that writes the file without reading it first
update_live_plan_unread(bytes, content) ==
    update_form_section(<<>>, LIVE_PLAN_MARKER, content, LIVE_PLAN_HEADER)

\* update_live_plan
update_live_plan(bytes, content) ==
    update_form_section(bytes, LIVE_PLAN_MARKER, content, LIVE_PLAN_HEADER)

\* ensure_markers on an existing file; marker_pairs is a sequence of
\* <<marker_name, placeholder>>; the file is rewritten only when a block was
\* added
RECURSIVE ensure_loop(_, _)
ensure_loop(text, marker_pairs) ==
    IF marker_pairs = <<>> THEN text
    ELSE LET marker_name == Head(marker_pairs)[1]
             placeholder == Head(marker_pairs)[2]
             present == find(text, START(marker_name), 1) # 0
                        /\ find(text, END(marker_name), 1) # 0
             block == <<START(marker_name), NL>>
                      \o (IF placeholder # <<>> THEN placeholder ELSE DEFAULT_PLACEHOLDER)
                      \o <<NL, END(marker_name)>>
         IN  IF present
             THEN ensure_loop(text, Tail(marker_pairs))
             ELSE ensure_loop(rstrip_nl(text) \o <<NL, NL>> \o block \o <<NL>>,
                              Tail(marker_pairs))

\* ensure that appends the block of the first pair without looking for it
ensure_markers_unchecked(bytes, marker_pairs) ==
    LET text == normalize_crlf(read_text(bytes))
        first == marker_pairs[1]
    IN  rstrip_nl(text) \o <<NL, NL, START(first[1]), NL>>
            \o (IF first[2] # <<>> THEN first[2] ELSE DEFAULT_PLACEHOLDER)
            \o <<NL, END(first[1]), NL>>

ensure_markers(bytes, marker_pairs) ==
    LET text == normalize_crlf(read_text(bytes))
        out == ensure_loop(text, marker_pairs)
    IN  IF out = text THEN bytes ELSE out


(***************************************************************************)
(* State.  doc is the content of the collaboration form file.  The other   *)
(* variables are introduced with the part of the program they belong to.   *)
(***************************************************************************)
VARIABLES
    doc,        \* the bytes of the collaboration form file
    lastOp,     \* anchor store: the operation applied last, its arguments and
                \* the document it was applied to
    written,    \* per anchor, the content of its latest update
    ctx,        \* memory bridge: the sections of the context built last
    builder,    \* memory bridge: the builder that built ctx ("" before any)
    run_objective,  \* the objective of the run
    \* FullPipelineRunner.run
    rpc,        \* the runner's position: the stage it is at and the phase
    attempts,   \* Stage 2B: the number of failed attempts (retries)
    outputs,    \* per stage, the normalized output it returned
    invoked,    \* the stages whose agent was invoked, in invocation order
    inProgress, \* the stages whose agent was invoked and has not returned
    registered, \* the stages whose output was registered with the document
    \* Stage4ExecutorAgent
    lpc,        \* the executor's position
    max_iterations,
    hasWatcher,         \* watcher_agent is not None
    hasOrchestrator,    \* orchestrator is not None
    iteration,
    messages,
    last_response_text,
    tool_calls, \* the calls parsed from the assistant reply being dispatched
    callIdx,    \* the position in tool_calls of the call dispatched next
    current_plan,   \* WatcherAgent.revise_plan: the plan read before the model call
    returnValue,    \* the text _run_live_document_loop returned
    modelCalls,     \* the number of model invocations inside the loop
    finalPrompts,   \* the number of [FINAL_ANSWER_REQUIRED] messages sent
    dispatched,     \* the tool calls dispatched, in dispatch order
    watcherCall,    \* the latest revise_plan call: the dispatched call it was
                    \* made for, the plan it read, the reply of its model and
                    \* what it returned
    path_exists,    \* finish_form_utils: a file exists at the path of the form
    pathCall,   \* finish_form_utils: the latest call on the path and its outcome
    bridges,    \* per ToolsBridge instance, its interpreter namespace and its
                \* search provider
    builtins,   \* the names of the interpreter's builtins module (one per process)
    tool_result,    \* the ToolResult of the latest tool call, with the call
    workflow,   \* CapabilityUpgradeWorkflow.run: its position, the stage-one
                \* response, the orchestrator's records, the package, the
                \* calls of evaluate and the exception raised
    upgrade,    \* the strategy upgrade agent and its library file: library,
                \* _session_new_counts, last_patch_markdown, last_applied_path,
                \* the reply and result_text of the latest evaluate_text, its
                \* outcome, the new strategies applied per category letter,
                \* auto_apply_patch of its config, the `apply` commands given
    runners     \* two runners, each with its own strategy upgrade agent: the
                \* library files, the configured library_file and
                \* auto_apply_patch and, per agent,
                \* its position in evaluate_text and its fields

storeVars == <<lastOp, written>>
ctxVars == <<ctx, builder>>
runVars == <<rpc, attempts, outputs, invoked, inProgress, registered>>
loopVars == <<lpc, max_iterations, hasWatcher, hasOrchestrator, iteration, messages,
              last_response_text, tool_calls, callIdx, current_plan, returnValue,
              modelCalls, finalPrompts, dispatched, watcherCall>>
upgradeVars == <<upgrade, runners>>
pathVars == <<path_exists, pathCall>>
toolVars == <<bridges, builtins, tool_result>>
auxVars == <<pathVars, toolVars, workflow>>
vars == <<doc, storeVars, ctxVars, run_objective, runVars, loopVars, upgradeVars, auxVars>>

\* the runner has not started
RunIdle ==
    /\ rpc = [stage |-> "", phase |-> "idle"]
    /\ attempts = 0
    /\ outputs = <<>>
    /\ invoked = <<>>
    /\ inProgress = {}
    /\ registered = {}

\* no revise_plan call was made yet; outcome is "pending" while the watcher's
\* model is awaited, then "replied", "raised" or "cancelled", and "skipped"
\* for a call that returned before its model call; failed tells that some
\* call raised an Exception
NoWatcherCall ==
    [call |-> 0, plan |-> <<>>, outcome |-> "none", reply |-> <<>>, revised |-> FALSE,
     failed |-> FALSE]

\* the executor has not started
LoopIdle ==
    /\ lpc = "idle"
    /\ max_iterations = 0
    /\ hasWatcher = FALSE
    /\ hasOrchestrator = FALSE
    /\ iteration = 0
    /\ messages = <<>>
    /\ last_response_text = <<>>
    /\ tool_calls = <<>>
    /\ callIdx = 0
    /\ current_plan = <<>>
    /\ returnValue = <<>>
    /\ modelCalls = 0
    /\ finalPrompts = 0
    /\ dispatched = <<>>
    /\ watcherCall = NoWatcherCall

\* no call was made on the path of the form
NoPathCall == [op |-> "none"]

\* the form exists and no call was made on its path
PathIdle ==
    /\ path_exists = TRUE
    /\ pathCall = NoPathCall

\* no tool was called
NoToolResult == [tool |-> "none"]

\* no tool bridge was made
ToolsIdle ==
    /\ bridges = <<>>
    /\ builtins = <<>>
    /\ tool_result = NoToolResult

\* no workflow was made
NoWorkflow == [pc |-> "none"]

AuxIdle ==
    /\ PathIdle
    /\ ToolsIdle
    /\ workflow = NoWorkflow

\* the category letters of the strategy library
Letters == {"I", "A"}

\* no upgrade agent was made
NoUpgradeAgent ==
    [library |-> <<>>, _session_new_counts |-> [l \in Letters |-> 0],
     last_patch_markdown |-> <<>>, last_applied_path |-> "", result_text |-> <<>>,
     reply |-> <<>>, applied |-> FALSE, apply_reason |-> <<>>,
     created |-> [l \in Letters |-> 0], evaluations |-> 0, finish_form_path |-> FALSE,
     auto_apply_patch |-> FALSE, commands |-> 0]

\* no runner was started
NoRunners == [library_file |-> "none"]

UpgradeIdle == upgrade = NoUpgradeAgent /\ runners = NoRunners

(***************************************************************************)
(* Anchor file store: update / update_live_plan / ensure applied to one    *)
(* document in any order (workflow/finish_form_utils.py).                  *)
(***************************************************************************)
STAGE3_PLAN == "STAGE3_PLAN"
\* the header Stage3ExecutionAgent passes (stage3_agent/Step_agent.py:36)
STAGE3_HEADER == "## Stage 3: Execution Plan"

\* the anchors the store operations are exercised on
StoreAnchors == {STAGE3_PLAN, LIVE_PLAN_MARKER}

StoreHeader(a) == IF a = LIVE_PLAN_MARKER THEN LIVE_PLAN_HEADER ELSE STAGE3_HEADER

\* longest document kept in the state space
MaxDocLen == 13

\* contents handed to update: empty, blank, padded, with a carriage
\* return, the placeholder, and texts that themselves contain marker or heading text
StoreContents ==
    { <<>>,
      <<SP, NL>>,
      <<Ch("x")>>,
      <<NL, Ch("y"), SP>>,
      <<Ch("x"), CR, Ch("y")>>,
      DEFAULT_PLACEHOLDER,
      <<Ch("x"), END(STAGE3_PLAN), Ch("y")>>,
      <<START(LIVE_PLAN_MARKER), Ch("z"), END(LIVE_PLAN_MARKER)>>,
      <<Hdr(LIVE_PLAN_HEADER), NL, Ch("x")>> }

\* documents a run can start from: every anchor absent or present once
StoreTemplates ==
    { <<Ch("title"), NL>>,
      <<Hdr(LIVE_PLAN_HEADER)>>,
      <<Hdr(STAGE3_HEADER), NL, Hdr(LIVE_PLAN_HEADER), NL, Ch("tail"), NL>>,
      <<START(STAGE3_PLAN), NL>> \o DEFAULT_PLACEHOLDER \o <<NL, END(STAGE3_PLAN), NL>>,
      <<START(STAGE3_PLAN)>> \o DEFAULT_PLACEHOLDER \o <<END(STAGE3_PLAN), NL>>
          \o <<Hdr(LIVE_PLAN_HEADER), NL>>
          \o <<START(LIVE_PLAN_MARKER)>> \o DEFAULT_PLACEHOLDER \o <<END(LIVE_PLAN_MARKER), NL>>,
      <<START(STAGE3_PLAN), CR, NL, Ch("old"), CR, NL, END(STAGE3_PLAN), CR, NL>> }

\* placeholders handed to ensure (an empty one selects the default)
EnsurePlaceholders == { <<>>, <<Ch("todo")>> }

\* marker_pairs handed to ensure: one pair, two pairs, the same name twice
EnsurePairLists ==
    { <<<<a, p>>>> : a \in StoreAnchors, p \in EnsurePlaceholders }
    \cup { <<<<STAGE3_PLAN, <<>>>>, <<LIVE_PLAN_MARKER, <<>>>>>>,
           <<<<LIVE_PLAN_MARKER, <<>>>>, <<LIVE_PLAN_MARKER, <<Ch("todo")>>>>>> }

Count(text, tok) == Cardinality({i \in 1..Len(text) : text[i] = tok})

\* the anchor occurs zero times, or exactly once as a START followed by an END
AtMostOncePaired(text, a) ==
    \/ Count(text, START(a)) = 0 /\ Count(text, END(a)) = 0
    \/ /\ Count(text, START(a)) = 1
       /\ Count(text, END(a)) = 1
       /\ find(text, START(a), 1) < find(text, END(a), 1)

NoOp == [kind |-> "none", a |-> "", x |-> <<>>, hdr |-> "", pairs |-> <<>>, pre |-> <<>>]

StoreIdle ==
    /\ lastOp = NoOp
    /\ written = [a \in StoreAnchors |-> [set |-> FALSE, x |-> <<>>]]

CtxIdle ==
    /\ ctx = <<>>
    /\ builder = ""

InitStore ==
    /\ doc \in StoreTemplates
    /\ StoreIdle
    /\ CtxIdle
    /\ run_objective = <<>>
    /\ UpgradeIdle
    /\ AuxIdle
    /\ RunIdle
    /\ LoopIdle

\* update_form_section(path, marker_name=a, content=x, header=None)
Update(a, x) ==
    LET new == update_form_section(doc, a, x, NoHeader)
    IN  /\ Len(new) <= MaxDocLen
        /\ doc' = new
        /\ lastOp' = [kind |-> "update", a |-> a, x |-> x, hdr |-> NoHeader,
                      pairs |-> <<>>, pre |-> doc]
        /\ written' = [written EXCEPT ![a] = [set |-> TRUE, x |-> x]]
        /\ UNCHANGED <<ctxVars, run_objective, upgradeVars, auxVars, runVars, loopVars>>

\* update_form_section(path, marker_name=a, content=x, header=h), as the
\* stage agents' _write_finish_form calls it
UpdateWithHeader(a, x) ==
    LET new == update_form_section(doc, a, x, StoreHeader(a))
    IN  /\ a # LIVE_PLAN_MARKER
        /\ Len(new) <= MaxDocLen
        /\ doc' = new
        /\ lastOp' = [kind |-> "update", a |-> a, x |-> x, hdr |-> StoreHeader(a),
                      pairs |-> <<>>, pre |-> doc]
        /\ written' = [written EXCEPT ![a] = [set |-> TRUE, x |-> x]]
        /\ UNCHANGED <<ctxVars, run_objective, upgradeVars, auxVars, runVars, loopVars>>

\* update_live_plan(path, x)
UpdateLivePlan(x) ==
    LET new == update_live_plan(doc, x)
    IN  /\ Len(new) <= MaxDocLen
        /\ doc' = new
        /\ lastOp' = [kind |-> "update", a |-> LIVE_PLAN_MARKER, x |-> x,
                      hdr |-> LIVE_PLAN_HEADER, pairs |-> <<>>, pre |-> doc]
        /\ written' = [written EXCEPT ![LIVE_PLAN_MARKER] = [set |-> TRUE, x |-> x]]
        /\ UNCHANGED <<ctxVars, run_objective, upgradeVars, auxVars, runVars, loopVars>>

\* ensure_markers(path, marker_pairs=pairs)
Ensure(pairs) ==
    LET new == ensure_markers(doc, pairs)
    IN  /\ Len(new) <= MaxDocLen
        /\ doc' = new
        /\ lastOp' = [kind |-> "ensure", a |-> "", x |-> <<>>, hdr |-> "",
                      pairs |-> pairs, pre |-> doc]
        /\ UNCHANGED <<written, ctxVars, run_objective, upgradeVars, auxVars, runVars, loopVars>>

NextStore ==
    \/ \E a \in StoreAnchors, x \in StoreContents : Update(a, x)
    \/ \E a \in StoreAnchors, x \in StoreContents : UpdateWithHeader(a, x)
    \/ \E x \in StoreContents : UpdateLivePlan(x)
    \/ \E pairs \in EnsurePairLists : Ensure(pairs)

SpecStore == InitStore /\ [][NextStore]_vars

\* what the claims expect read to return after update(A, x)
TrimmedOrPlaceholder(x) == IF strip(x) = <<>> THEN DEFAULT_PLACEHOLDER ELSE strip(x)

\* C3: after update(doc, A, x) on a document in which A occurs at most once,
\* read(doc, A) returns exactly x trimmed, or the placeholder token when x is
\* empty or whitespace-only.
C3_ReadReturnsWritten ==
    (lastOp.kind = "update" /\ AtMostOncePaired(read_text(lastOp.pre), lastOp.a))
        => read_form_section(doc, lastOp.a)
               = [found |-> TRUE, text |-> TrimmedOrPlaceholder(lastOp.x)]

\* C4: read(doc, A) returns the content of the most recent update to A,
\* whatever updates to other anchors came in between.
C4_ReadYourWrites ==
    \A a \in StoreAnchors :
        written[a].set
            => read_form_section(doc, a)
                   = [found |-> TRUE, text |-> TrimmedOrPlaceholder(written[a].x)]

\* C6: starting from a document in which every anchor occurs zero times or
\* once as a matched pair, after any sequence of update, update_live_plan and
\* ensure every anchor still occurs at most once as a matched pair.
C6_AnchorsAtMostOnce ==
    \A a \in StoreAnchors : AtMostOncePaired(read_text(doc), a)


(***************************************************************************)
(* Memory bridge (Memory_system/memory_bridge.py): the context a stage     *)
(* builder composes from the objective, the optional inputs and the        *)
(* anchors of the document.  A context is the list of ContextSections of   *)
(* the bridge, each [header, content, source].                             *)
(***************************************************************************)

\* memory_bridge.py:163-196, each descriptor <<marker, header, source>>
EXTERNAL_SECTION_DESCRIPTORS ==
    << <<"EXTERNAL_INFO", "External Information", "external_input">>,
       <<"EXTERNAL_OBJECTIVE", "Task Objective", "external_input">>,
       <<"EXTERNAL_CONTEXT", "External Context", "external_input">>,
       <<"EXTERNAL_TOOL_CATALOG", "Available Tools", "external_input">> >>

STAGE1_SECTION_DESCRIPTORS ==
    << <<"STAGE1_ANALYSIS", "Stage 1 Analysis", "stage1_agent">> >>

STAGE2A_SECTION_DESCRIPTORS ==
    << <<"STAGE2A_ANALYSIS", "Stage 2-A Analysis", "stage2a_agent">> >>

STAGE2B_SECTION_DESCRIPTORS ==
    << <<"STAGE2B_ANALYSIS", "Stage 2-B Analysis", "stage2b_agent">> >>

STAGE3_SECTION_DESCRIPTORS ==
    << <<"STAGE3_PLAN", "Stage 3 Plan", "stage3_agent">> >>

STAGE4_SECTION_DESCRIPTORS ==
    << <<"LIVE_EXECUTION_PLAN", "Live Execution Plan", "system">>,
       <<"STAGE4_TOOL_CALLS", "Execution Log", "stage4_agent">>,
       <<"STAGE4_FINAL_ANSWER", "Final Answer to User", "stage4_agent">>,
       <<"STAGE4_FEEDBACK", "Feedback to Upstream", "stage4_agent">> >>

WATCHER_SECTION_DESCRIPTORS ==
    << <<"WATCHER_AUDIT", "Watcher Audit Report", "watcher_agent">>,
       <<"WATCHER_REALTIME", "Watcher Realtime Guidance", "watcher_agent">> >>

\* create_watcher_audit_context.watcher_descriptors
WATCHER_AUDIT_DESCRIPTORS ==
    << <<"STAGE1_FAILURE_MODES", "Common Failure Modes", "stage1_agent">>,
       <<"STAGE2B_STRATEGY_SNAPSHOT", "Final Strategy Snapshot", "stage2b_agent">>,
       <<"STAGE3_EXECUTION_PLAN", "Execution Plan Overview", "stage3_agent">> >>

\* _load_anchor_sections on an existing file: for marker m the dict entry
\* (has = FALSE when the dict has no key m).  finditer visits every START
\* marker in order and a later match overwrites an earlier one.
_load_anchor_sections(bytes, m) ==
    LET content == read_text(bytes)
        hits == {i \in 1..Len(content) :
                    content[i] = START(m) /\ find(content, END(m), i + 1) # 0}
        i == SetMax(hits)
    IN  IF hits = {}
        THEN [has |-> FALSE, text |-> <<>>]
        ELSE [has |-> TRUE,
              text |-> strip(SubSeq(content, i + 1, find(content, END(m), i + 1) - 1))]

\* MemoryBridge.add_section: the section list after the call
add_section(sections, header, content, source) ==
    IF content # <<>> /\ strip(content) # <<>>
    THEN Append(sections, [header |-> header, content |-> strip(content), source |-> source])
    ELSE sections

\* MemoryBridge.add_objective
add_objective(sections, objective) == add_section(sections, "Objective", objective, "user_input")

\* MemoryBridge.add_context_snapshot
add_context_snapshot(sections, snapshot) ==
    add_section(sections, "Context Snapshot", snapshot, "environment")

\* MemoryBridge.add_user_context ("user-supplied context" in the source's language)
add_user_context(sections, content) ==
    add_section(sections, "User Context", content, "user_input")

\* MemoryBridge.add_attachments, for attachments given as a string
add_attachments(sections, attachments) ==
    add_section(sections, "Task Attachments", attachments, "user_input")

\* _add_sections_from_markers
RECURSIVE _add_sections_from_markers(_, _, _)
_add_sections_from_markers(sections, bytes, descriptors) ==
    IF descriptors = <<>> THEN sections
    ELSE LET d == Head(descriptors)
             e == _load_anchor_sections(bytes, d[1])
             next == IF e.has /\ e.text # <<>>
                     THEN add_section(sections, d[2], e.text, d[3])
                     ELSE sections
         IN  _add_sections_from_markers(next, bytes, Tail(descriptors))

\* an optional argument is added only when it is truthy
AddIf(sections, value, added) == IF value # <<>> THEN added ELSE sections

\* create_stage1_context with the descriptor lists of a later builder
create_stage1_context_later(bytes, objective, user_context) ==
    LET b1 == add_objective(<<>>, objective)
        b2 == AddIf(b1, user_context, add_user_context(b1, user_context))
    IN  _add_sections_from_markers(b2, bytes,
            EXTERNAL_SECTION_DESCRIPTORS \o STAGE1_SECTION_DESCRIPTORS
                \o STAGE2A_SECTION_DESCRIPTORS)

create_stage1_context(bytes, objective, user_context) ==
    LET b1 == add_objective(<<>>, objective)
        b2 == AddIf(b1, user_context, add_user_context(b1, user_context))
    IN  _add_sections_from_markers(b2, bytes,
            EXTERNAL_SECTION_DESCRIPTORS \o STAGE1_SECTION_DESCRIPTORS)

create_stage2a_context(bytes, objective, context_snapshot) ==
    LET b1 == add_objective(<<>>, objective)
        b2 == AddIf(b1, context_snapshot, add_context_snapshot(b1, context_snapshot))
    IN  _add_sections_from_markers(b2, bytes,
            EXTERNAL_SECTION_DESCRIPTORS \o STAGE1_SECTION_DESCRIPTORS
                \o STAGE2A_SECTION_DESCRIPTORS)

create_stage2b_context(bytes, objective, context_snapshot) ==
    LET b1 == add_objective(<<>>, objective)
        b2 == AddIf(b1, context_snapshot, add_context_snapshot(b1, context_snapshot))
    IN  _add_sections_from_markers(b2, bytes,
            EXTERNAL_SECTION_DESCRIPTORS \o STAGE1_SECTION_DESCRIPTORS
                \o STAGE2A_SECTION_DESCRIPTORS \o STAGE2B_SECTION_DESCRIPTORS)

create_stage3_context(bytes, objective, context_snapshot, attachments) ==
    LET b1 == add_objective(<<>>, objective)
        b2 == AddIf(b1, context_snapshot, add_context_snapshot(b1, context_snapshot))
        b3 == AddIf(b2, attachments, add_attachments(b2, attachments))
    IN  _add_sections_from_markers(b3, bytes,
            EXTERNAL_SECTION_DESCRIPTORS \o STAGE1_SECTION_DESCRIPTORS
                \o STAGE2A_SECTION_DESCRIPTORS \o STAGE2B_SECTION_DESCRIPTORS
                \o STAGE3_SECTION_DESCRIPTORS)

create_stage4_context(bytes, objective, attachments, context_snapshot) ==
    LET b1 == add_objective(<<>>, objective)
        b2 == AddIf(b1, attachments, add_attachments(b1, attachments))
        b3 == AddIf(b2, context_snapshot, add_context_snapshot(b2, context_snapshot))
    IN  _add_sections_from_markers(b3, bytes,
            EXTERNAL_SECTION_DESCRIPTORS \o STAGE1_SECTION_DESCRIPTORS
                \o STAGE2A_SECTION_DESCRIPTORS \o STAGE2B_SECTION_DESCRIPTORS
                \o STAGE3_SECTION_DESCRIPTORS \o STAGE4_SECTION_DESCRIPTORS
                \o WATCHER_SECTION_DESCRIPTORS)

\* the watcher audit context with the audit anchors of Stage 4 added
create_watcher_audit_context_wide(bytes, objective) ==
    _add_sections_from_markers(add_objective(<<>>, objective), bytes,
                               WATCHER_AUDIT_DESCRIPTORS \o STAGE3_SECTION_DESCRIPTORS)

create_watcher_audit_context(bytes, objective) ==
    _add_sections_from_markers(add_objective(<<>>, objective), bytes,
                               WATCHER_AUDIT_DESCRIPTORS)


\* the anchors of the documents the builders are applied to, in the order of
\* their blocks in the document
CtxAnchors ==
    <<"EXTERNAL_INFO", "STAGE1_ANALYSIS", "STAGE1_FAILURE_MODES", "STAGE2A_ANALYSIS",
      "STAGE2B_ANALYSIS", "STAGE2B_STRATEGY_SNAPSHOT", "STAGE3_PLAN",
      "STAGE3_EXECUTION_PLAN", "LIVE_EXECUTION_PLAN">>

CtxAnchorSet == {CtxAnchors[i] : i \in 1..Len(CtxAnchors)}

\* the block of anchor a: none, an empty one, the placeholder, or a text
\* naming the anchor that holds it
CtxBlock(a, fill) ==
    CASE fill = "absent" -> <<>>
      [] fill = "empty" -> <<START(a), NL, END(a), NL>>
      [] fill = "placeholder" -> <<START(a), NL>> \o DEFAULT_PLACEHOLDER \o <<NL, END(a), NL>>
      [] OTHER -> <<START(a), NL, Ch(a), NL, END(a), NL>>

RECURSIVE CtxDocument(_, _)
CtxDocument(anchors, fill) ==
    IF anchors = <<>> THEN <<>>
    ELSE CtxBlock(Head(anchors), fill[Head(anchors)]) \o CtxDocument(Tail(anchors), fill)

\* the fillings of an anchor's block the documents are drawn from
CtxFills(a) ==
    CASE a \in {"STAGE1_ANALYSIS", "STAGE3_PLAN"} -> {"absent", "placeholder", "text"}
      [] a = "STAGE3_EXECUTION_PLAN" -> {"absent", "empty", "text"}
      [] OTHER -> {"absent", "text"}

\* values of the objective and of the optional inputs (<<>> is None or "")
CtxObjectives == { <<Ch("objective")>>, <<>> }
CtxOptionals == { <<>>, <<Ch("snapshot")>> }

\* the ways of filling the anchors (Stage 2-B writes its two anchors
\* together), and the document of a filling
CtxFillings ==
    {f \in [CtxAnchorSet -> {"absent", "empty", "placeholder", "text"}] :
        /\ \A a \in CtxAnchorSet : f[a] \in CtxFills(a)
        /\ f["STAGE2B_STRATEGY_SNAPSHOT"] = f["STAGE2B_ANALYSIS"]}

CtxDocumentOf(fill) == <<Ch("title"), NL>> \o CtxDocument(CtxAnchors, fill)

InitCtx ==
    /\ \E fill \in CtxFillings : doc = CtxDocumentOf(fill)
    /\ StoreIdle
    /\ CtxIdle
    /\ run_objective = <<>>
    /\ UpgradeIdle
    /\ AuxIdle
    /\ RunIdle
    /\ LoopIdle

BuildStage1(objective, user_context) ==
    /\ ctx' = create_stage1_context(doc, objective, user_context)
    /\ builder' = "stage1"
    /\ UNCHANGED <<doc, storeVars, run_objective, upgradeVars, auxVars, runVars, loopVars>>

BuildStage2a(objective, context_snapshot) ==
    /\ ctx' = create_stage2a_context(doc, objective, context_snapshot)
    /\ builder' = "stage2a"
    /\ UNCHANGED <<doc, storeVars, run_objective, upgradeVars, auxVars, runVars, loopVars>>

BuildStage2b(objective, context_snapshot) ==
    /\ ctx' = create_stage2b_context(doc, objective, context_snapshot)
    /\ builder' = "stage2b"
    /\ UNCHANGED <<doc, storeVars, run_objective, upgradeVars, auxVars, runVars, loopVars>>

BuildStage3(objective, context_snapshot) ==
    /\ ctx' = create_stage3_context(doc, objective, context_snapshot, <<>>)
    /\ builder' = "stage3"
    /\ UNCHANGED <<doc, storeVars, run_objective, upgradeVars, auxVars, runVars, loopVars>>

BuildStage4(objective, attachments) ==
    /\ ctx' = create_stage4_context(doc, objective, attachments, <<>>)
    /\ builder' = "stage4"
    /\ UNCHANGED <<doc, storeVars, run_objective, upgradeVars, auxVars, runVars, loopVars>>

BuildWatcherAudit(objective) ==
    /\ ctx' = create_watcher_audit_context(doc, objective)
    /\ builder' = "watcher_audit"
    /\ UNCHANGED <<doc, storeVars, run_objective, upgradeVars, auxVars, runVars, loopVars>>

\* a builder reads the document and returns; one builder is applied to each
\* document
NextCtx ==
    /\ builder = ""
    /\ \/ \E o \in CtxObjectives, u \in CtxOptionals : BuildStage1(o, u)
       \/ \E o \in CtxObjectives, u \in CtxOptionals : BuildStage2a(o, u)
       \/ \E o \in CtxObjectives, u \in CtxOptionals : BuildStage2b(o, u)
       \/ \E o \in CtxObjectives, u \in CtxOptionals : BuildStage3(o, u)
       \/ \E o \in CtxObjectives, u \in CtxOptionals : BuildStage4(o, u)
       \/ \E o \in CtxObjectives : BuildWatcherAudit(o)

SpecCtx == InitCtx /\ [][NextCtx]_vars

\* the position of a stage in the order Stage 1, 2A, 2B, 3, 4 (0: external
\* input, written before Stage 1)
StageRank(stage) ==
    CASE stage = "stage1" -> 1
      [] stage = "stage2a" -> 2
      [] stage = "stage2b" -> 3
      [] stage = "stage3" -> 4
      [] stage = "stage4" -> 5
      [] OTHER -> 0

\* the stage that writes an anchor
AnchorStage(a) ==
    CASE a \in {"STAGE1_ANALYSIS", "STAGE1_FAILURE_MODES"} -> "stage1"
      [] a = "STAGE2A_ANALYSIS" -> "stage2a"
      [] a \in {"STAGE2B_ANALYSIS", "STAGE2B_STRATEGY_SNAPSHOT"} -> "stage2b"
      [] a \in {"STAGE3_PLAN", "STAGE3_EXECUTION_PLAN"} -> "stage3"
      [] a \in {"LIVE_EXECUTION_PLAN", "STAGE4_TOOL_CALLS", "STAGE4_FINAL_ANSWER",
                "STAGE4_FEEDBACK", "WATCHER_AUDIT", "WATCHER_REALTIME"} -> "stage4"
      [] OTHER -> "external"

AllDescriptors ==
    EXTERNAL_SECTION_DESCRIPTORS \o STAGE1_SECTION_DESCRIPTORS \o STAGE2A_SECTION_DESCRIPTORS
        \o STAGE2B_SECTION_DESCRIPTORS \o STAGE3_SECTION_DESCRIPTORS
        \o STAGE4_SECTION_DESCRIPTORS \o WATCHER_SECTION_DESCRIPTORS
        \o WATCHER_AUDIT_DESCRIPTORS

\* the anchors a section of a context can have been taken from
SectionAnchors(sec) ==
    {AllDescriptors[i][1] : i \in {j \in 1..Len(AllDescriptors) :
          AllDescriptors[j][2] = sec.header /\ AllDescriptors[j][3] = sec.source}}

\* the anchors whose text occurs in the content of a section
QuotedAnchors(sec) ==
    {sec.content[i].v : i \in {j \in 1..Len(sec.content) :
          sec.content[j].k = "CH" /\ sec.content[j].v \in CtxAnchorSet}}

StageBuilders == {"stage1", "stage2a", "stage2b", "stage3", "stage4"}

\* C2: the context composed for a stage never contains output of a later
\* stage: no section is taken from, and no section holds the text of, an
\* anchor written by a stage that comes after the builder's stage.
C2_NoLaterStageOutput ==
    builder \in StageBuilders =>
        \A i \in 1..Len(ctx) :
            \A a \in SectionAnchors(ctx[i]) \cup QuotedAnchors(ctx[i]) :
                StageRank(AnchorStage(a)) <= StageRank(builder)

\* C2 witness: the Stage 1 builder ran on a document that already holds the
\* Stage 3 plan and the live plan, and took the Stage 1 section from it
C2_Witness ==
    /\ builder = "stage1"
    /\ _load_anchor_sections(doc, "STAGE3_PLAN").text = <<Ch("STAGE3_PLAN")>>
    /\ _load_anchor_sections(doc, "LIVE_EXECUTION_PLAN").text = <<Ch("LIVE_EXECUTION_PLAN")>>
    /\ \E i \in 1..Len(ctx) : ctx[i].header = "Stage 1 Analysis"

(***************************************************************************)
(* Stage 4 executor (stage4_agent/Executor_agent.py), tool bridge          *)
(* (stage4_agent/tools_bridge.py) and watcher                              *)
(* (Watcher_Agent/Watcher_agent.py): text operations.                      *)
(***************************************************************************)
Sec(h) == [k |-> "SEC", v |-> h, n |-> 0]
From(s) == [k |-> "FROM", v |-> s, n |-> 0]
OPEN == [k |-> "OPEN", v |-> "[TOOL_CALL]", n |-> 0]
CLOSE == [k |-> "CLOSE", v |-> "[/TOOL_CALL]", n |-> 0]
COLON == [k |-> "COLON", v |-> ":", n |-> 0]
JStr(s) == [k |-> "JSTR", v |-> s, n |-> 0]
\* <fence> stands for the three backquotes of a markdown code fence
PlanFence == [k |-> "FENCE", v |-> "<fence>plan", n |-> 0]
Fence == [k |-> "FENCE", v |-> "<fence>", n |-> 0]
Iter(t, i) == [k |-> "ITER", v |-> t, n |-> i]
IterationPrompt(i) == [k |-> "PROMPT", v |-> "# Current Live Plan (Iteration", n |-> i]
IterationPromptEnd == [k |-> "PROMPT", v |-> "Execute the next step", n |-> 0]
ToolResultHead(t) == [k |-> "RESULT", v |-> t, n |-> 0]
AuditHead(t) == [k |-> "AUDIT", v |-> t, n |-> 0]

FINAL_ANSWER_REQUIRED ==
    <<Ch("[FINAL_ANSWER_REQUIRED] Output your Final Answer now. No more tool calls.")>>
STEPS_HEADER == "## Steps"
EXECUTION_LOG_HEADER == "### 1. Execution Log"
WATCHER_AUDIT_HEADER == "## Watcher Audit Report"
TOOL_CALLS_MARKER == "STAGE4_TOOL_CALLS"
WATCHER_AUDIT_MARKER == "WATCHER_AUDIT"

\* BaseAgent._system_prompt, the content of executor.md
system_prompt == <<Ch("system prompt")>>

\* MemoryBridge.build_context: "## header (from source)", a blank line, the
\* content, a blank line, for every section
RECURSIVE build_parts(_)
build_parts(sections) ==
    IF sections = <<>> THEN <<>>
    ELSE LET s == Head(sections)
             header_line == <<Sec(s.header)>>
                                \o (IF s.source # "" THEN <<From(s.source)>> ELSE <<>>)
         IN  header_line \o <<NL, NL>> \o s.content \o <<NL, NL>>
                 \o build_parts(Tail(sections))

build_context(sections) ==
    IF sections = <<>> THEN <<>> ELSE strip(build_parts(sections))

\* str.split(tok)
RECURSIVE split_on(_, _)
split_on(text, tok) ==
    LET i == find(text, tok, 1)
    IN  IF i = 0 THEN <<text>>
        ELSE <<SubSeq(text, 1, i - 1)>> \o split_on(SubSeq(text, i + 1, Len(text)), tok)

\* "\n".join(lines)
RECURSIVE join_lines(_)
join_lines(lines) ==
    IF lines = <<>> THEN <<>>
    ELSE IF Len(lines) = 1 THEN Head(lines)
    ELSE Head(lines) \o <<NL>> \o join_lines(Tail(lines))

\* the tokens whose text starts with "## "
IsH2(t) ==
    \/ t.k = "SEC"
    \/ t.k = "HDR" /\ t.v \in {LIVE_PLAN_HEADER, STAGE3_HEADER, STEPS_HEADER,
                               WATCHER_AUDIT_HEADER}

\* line.strip().startswith("## " + header): no section header of the bridge
\* is a proper extension of another one
StartsSection(line, header) ==
    LET s == strip(line)
    IN  s # <<>> /\ s[1] = Sec(header)

\* the loop of _extract_section over the lines
RECURSIVE extract_lines(_, _, _)
extract_lines(lines, header, capture) ==
    IF lines = <<>> THEN <<>>
    ELSE LET line == Head(lines)
         IN  IF StartsSection(line, header)
             THEN extract_lines(Tail(lines), header, TRUE)
             ELSE IF capture
                  THEN IF strip(line) # <<>> /\ IsH2(strip(line)[1])
                       THEN <<>>
                       ELSE <<line>> \o extract_lines(Tail(lines), header, TRUE)
                  ELSE extract_lines(Tail(lines), header, FALSE)

_extract_section(context, header) ==
    strip(join_lines(extract_lines(split_on(context, NL), header, FALSE)))

\* _init_live_plan: the plan it passes to update_live_plan
initial_plan(execution_plan, obj) ==
    (IF obj # <<>> THEN <<Ch("Objective: ")>> \o obj \o <<NL, NL>> ELSE <<>>)
        \o <<Hdr(STEPS_HEADER), NL, NL>> \o execution_plan

_init_live_plan(bytes, execution_plan, obj) ==
    update_live_plan(bytes, initial_plan(execution_plan, obj))

\* _build_iteration_prompt
_build_iteration_prompt(live_plan, i) ==
    <<IterationPrompt(i), PlanFence, NL>> \o live_plan \o <<NL, Fence, IterationPromptEnd>>

\* the text of a key or of a tool name: one word (the replies modelled here
\* hold no key or tool name made of several tokens)
Text1(val) ==
    CASE val = <<>> -> ""
      [] Len(val) = 1 /\ val[1].k = "CH" -> val[1].v
      [] OTHER -> "(composite)"

\* args[key] = value on a dict kept in insertion order
dict_set(args, key, value) ==
    IF \E i \in 1..Len(args) : args[i][1] = key
    THEN [i \in 1..Len(args) |-> IF args[i][1] = key THEN <<key, value>> ELSE args[i]]
    ELSE Append(args, <<key, value>>)

\* json.loads(val), the raw value when it does not parse: a JSON string
\* yields its text
json_loads_or_raw(val) ==
    IF Len(val) = 1 /\ val[1].k = "JSTR" THEN <<Ch(val[1].v)>> ELSE val

\* _parse_tool_calls: the keys that end the value of a `code` key
TOP_LEVEL_KEYS ==
    {"tool", "query", "url", "format", "expression", "max_results", "provider",
     "fallback_queries", "min_results"}

\* str.isidentifier() of a key: the words of the replies modelled here that
\* are identifiers (the empty key and a key of several tokens are none)
isidentifier(word) ==
    word \in TOP_LEVEL_KEYS
                 \cup {"code", "note", "verbose", "tool_name", "self", "bridge", "args",
                       "kwargs", "result", "answer", "value", "name", "key", "foo", "bar",
                       "a", "b", "c", "d", "i", "n", "x", "y"}

\* a space or a tab
IsIndent(t) == t.k = "WS" /\ t.v \in {" ", "\t"}

\* the spaces and tabs a line begins with
indent_of(line) ==
    LET other == {i \in 1..Len(line) : ~IsIndent(line[i])}
    IN  IF other = {} THEN line ELSE SubSeq(line, 1, SetMin(other) - 1)

\* textwrap.dedent: a line of spaces and tabs becomes empty, and the longest
\* run of spaces and tabs that every other line begins with is taken from
\* each of them
dedent(text) ==
    LET lines == split_on(text, NL)
        blank(i) == \A j \in 1..Len(lines[i]) : IsIndent(lines[i][j])
        full == {i \in 1..Len(lines) : ~blank(i)}
        first == lines[SetMin(full)]
        common(n) == \A i \in full : /\ Len(indent_of(lines[i])) >= n
                                     /\ SubSeq(lines[i], 1, n) = SubSeq(first, 1, n)
        margin == IF full = {} THEN 0
                  ELSE SetMax({n \in 0..Len(indent_of(first)) : common(n)})
    IN  join_lines([i \in 1..Len(lines) |->
                       IF blank(i) THEN <<>>
                       ELSE SubSeq(lines[i], margin + 1, Len(lines[i]))])

\* a line after the `code` key ends the code value: it holds a colon after a
\* top-level key, or after an identifier when the line is not indented
ends_code(next_line) ==
    LET next_stripped == strip(next_line)
        c == find(next_stripped, COLON, 1)
        potential_key == Text1(strip(SubSeq(next_stripped, 1, c - 1)))
    IN  /\ next_stripped # <<>>
        /\ c # 0
        /\ \/ potential_key \in TOP_LEVEL_KEYS
           \/ /\ ~(next_line # <<>> /\ IsIndent(next_line[1]))
              /\ isidentifier(potential_key)

\* the number of lines the inner loop of the `code` branch takes
RECURSIVE code_extent(_)
code_extent(lines) ==
    IF lines = <<>> \/ ends_code(Head(lines)) THEN 0
    ELSE 1 + code_extent(Tail(lines))

\* the loop of _parse_tool_calls over the lines of a body; the value of a
\* `code` key runs over the following lines up to the next key
RECURSIVE parse_lines(_, _, _)
parse_lines(lines, tool_name, args) ==
    IF lines = <<>> THEN [tool |-> tool_name, args |-> args]
    ELSE LET stripped == strip(Head(lines))
             c == find(stripped, COLON, 1)
             key == Text1(strip(SubSeq(stripped, 1, c - 1)))
             val == strip(SubSeq(stripped, c + 1, Len(stripped)))
             rest == Tail(lines)
             n == code_extent(rest)
             code_lines == (IF val # <<>> THEN <<json_loads_or_raw(val)>> ELSE <<>>)
                               \o [j \in 1..n |-> rstrip(rest[j])]
             raw_code == join_lines(code_lines)
         IN  IF stripped = <<>> \/ c = 0
             THEN parse_lines(rest, tool_name, args)
             ELSE IF key = "tool"
                  THEN parse_lines(rest, Text1(val), args)
                  ELSE IF key = "code"
                       THEN parse_lines(SubSeq(rest, n + 1, Len(rest)), tool_name,
                                        dict_set(args, "code", strip(dedent(raw_code))))
                       ELSE parse_lines(rest, tool_name,
                                        dict_set(args, key, json_loads_or_raw(val)))

\* the loop of _parse_tool_calls over the segments after the first
RECURSIVE parse_segments(_)
parse_segments(segments) ==
    IF segments = <<>> THEN <<>>
    ELSE LET segment == Head(segments)
             e == find(segment, CLOSE, 1)
             body == strip(SubSeq(segment, 1, e - 1))
             call == parse_lines(split_on(read_text(body), NL), "", <<>>)
         IN  (IF e # 0 /\ call.tool # "" THEN <<call>> ELSE <<>>)
                 \o parse_segments(Tail(segments))

\* _parse_tool_calls that stops after the first segment
_parse_tool_calls_first_segment(text) ==
    LET segments == Tail(split_on(text, OPEN))
    IN  IF segments = <<>> THEN <<>> ELSE parse_segments(<<Head(segments)>>)

_parse_tool_calls(text) == parse_segments(Tail(split_on(text, OPEN)))

\* ToolResult; error <<>> is None
ToolResult(success, output, error) ==
    [success |-> success, output |-> output, error |-> error]

ArgKeys(args) == {args[i][1] : i \in 1..Len(args)}
ArgValue(args, key) == args[CHOOSE i \in 1..Len(args) : args[i][1] = key][2]

\* the tools registered with @tool
RegisteredTools == {"web_search", "web_scrape", "code_interpreter", "calculate"}

\* the parameters of a registered tool without a default, and all of them
RequiredArgs(t) ==
    CASE t = "calculate" -> {"expression"}
      [] t = "web_search" -> {"query"}
      [] t = "web_scrape" -> {"url"}
      [] OTHER -> {"code"}

AcceptedArgs(t) ==
    CASE t = "calculate" -> {"expression"}
      [] t = "web_search" -> {"query", "max_results", "provider", "fallback_queries",
                              "min_results"}
      [] t = "web_scrape" -> {"url", "format"}
      [] OTHER -> {"code"}

\* calculate: eval on the expressions of the replies modelled here
calculate(expression) ==
    IF expression = <<Ch("2+2")>>
    THEN ToolResult(TRUE, <<Ch("4")>>, <<>>)
    ELSE ToolResult(FALSE, <<>>,
             <<Ch("Calculate error for expression '")>> \o expression
                 \o <<Ch("': ZeroDivisionError: division by zero\n--- Traceback ---\n"),
                      Ch("(traceback)"), NL>>)

\* the escapes of repr and of json.dumps inside a string: a line break, a
\* tab; json.dumps escapes a double quote too
RECURSIVE str_escape(_, _)
str_escape(val, quotes) ==
    IF val = <<>> THEN <<>>
    ELSE LET t == Head(val)
         IN  (CASE t = NL -> <<Ch("\\n")>>
                [] t = CR -> <<Ch("\\r")>>
                [] t.k = "WS" /\ t.v = "\t" -> <<Ch("\\t")>>
                [] t.k = "JSTR" /\ quotes -> <<Ch("\\\""), Ch(t.v), Ch("\\\"")>>
                [] OTHER -> <<t>>)
                 \o str_escape(Tail(val), quotes)

\* repr(kwargs) of a dict of str values
RECURSIVE repr_items(_)
repr_items(args) ==
    IF args = <<>> THEN <<>>
    ELSE <<Ch("'"), Ch(args[1][1]), Ch("': '")>> \o str_escape(args[1][2], FALSE)
             \o <<Ch("'")>>
             \o (IF Len(args) > 1 THEN <<Ch(", ")>> ELSE <<>>)
             \o repr_items(Tail(args))

dict_repr(args) == <<Ch("{")>> \o repr_items(args) \o <<Ch("}")>>

\* the error of call_tool when the tool function cannot bind kwargs: the
\* first key it cannot take (`bridge`, the first parameter of every tool
\* function, is bound positionally by call_tool, so the key gives it a second
\* value; any other key is one the function does not accept), else the
\* argument that is missing
invocation_error(tool_name, args) ==
    LET bad == {i \in 1..Len(args) : args[i][1] \notin AcceptedArgs(tool_name)}
        detail == IF bad # {}
                  THEN IF args[SetMin(bad)][1] = "bridge"
                       THEN <<Ch("() got multiple values for argument '"),
                              Ch("bridge"), Ch("'")>>
                       ELSE <<Ch("() got an unexpected keyword argument '"),
                              Ch(args[SetMin(bad)][1]), Ch("'")>>
                  ELSE <<Ch("() missing 1 required positional argument: '"),
                         Ch(CHOOSE a \in RequiredArgs(tool_name) : TRUE), Ch("'")>>
    IN  <<Ch("Tool invocation error: TypeError: "), Ch(tool_name)>> \o detail
            \o <<Ch("\nArgs: ")>> \o dict_repr(args)
            \o <<Ch("\n--- Traceback ---\n"), Ch("(traceback)"), NL>>

\* code_interpreter as call_tool sees it, on the snippets of the replies
\* modelled here: one that prints the 1 it assigns, and assignments, which
\* print nothing and bind none of the result names
interpret(code) ==
    LET clean_code == strip(dedent(code))
    IN  IF clean_code = <<>>
        THEN ToolResult(FALSE, <<>>, <<Ch("code_interpreter received empty code snippet")>>)
        ELSE IF clean_code = <<Ch("a = 1"), NL, NL, Ch("print(a)")>>
             THEN ToolResult(TRUE, <<Ch("1")>>, <<>>)
             ELSE ToolResult(TRUE, <<Ch("Executed with no output")>>, <<>>)

\* ToolsBridge.call_tool(tool_name, **args) once the arguments are bound; of
\* the registered tools the replies modelled here call calculate and
\* code_interpreter only
call_tool(tool_name, args) ==
    IF tool_name \notin RegisteredTools
    THEN ToolResult(FALSE, <<>>,
             <<Ch("Unknown tool: "), Ch(tool_name),
               Ch(". Available: ['web_search', 'web_scrape', 'code_interpreter', 'calculate']")>>)
    ELSE IF ~(RequiredArgs(tool_name) \subseteq ArgKeys(args)
              /\ ArgKeys(args) \subseteq AcceptedArgs(tool_name))
         THEN ToolResult(FALSE, <<>>, invocation_error(tool_name, args))
         ELSE IF tool_name = "calculate"
              THEN calculate(ArgValue(args, "expression"))
              ELSE IF tool_name = "code_interpreter"
                   THEN interpret(ArgValue(args, "code"))
                   ELSE ToolResult(TRUE, <<Ch("(tool output)")>>, <<>>)

\* tools_bridge.call_tool(tool_name, **tool_args) cannot bind its arguments:
\* a TypeError raised in the loop itself
call_raises(args) == "tool_name" \in ArgKeys(args) \/ "self" \in ArgKeys(args)

\* _format_tool_result
_format_tool_result(call, result) ==
    <<ToolResultHead(call.tool)>>
        \o (IF result.output # <<>> THEN <<Ch("\noutput: ")>> \o result.output ELSE <<>>)
        \o (IF result.error # <<>> THEN <<Ch("\nerror: ")>> \o result.error ELSE <<>>)

\* json.dumps of a str value
json_value(val) ==
    IF Len(val) = 1 /\ val[1].k = "CH" THEN <<JStr(val[1].v)>>
    ELSE <<Ch("\"")>> \o str_escape(val, TRUE) \o <<Ch("\"")>>

RECURSIVE json_items(_)
json_items(args) ==
    IF args = <<>> THEN <<>>
    ELSE <<Ch("\n  "), JStr(args[1][1]), Ch(": ")>> \o json_value(args[1][2])
             \o (IF Len(args) > 1 THEN <<Ch(",")>> ELSE <<>>)
             \o json_items(Tail(args))

\* json.dumps(tool_args, ensure_ascii=False, indent=2)
json_dumps(args) ==
    IF args = <<>> THEN <<Ch("{}")>> ELSE <<Ch("{")>> \o json_items(args) \o <<Ch("\n}")>>

\* _append_tool_log: the entry, stripped
tool_log_entry(i, tool_name, args, output, error) ==
    strip(<<NL, Iter(tool_name, i), Ch("\n**Args:**\n<fence>json\n")>> \o json_dumps(args)
              \o <<Ch("\n<fence>\n**Output:** ")>>
              \o (IF output # <<>> THEN output ELSE <<Ch("(none)")>>)
              \o <<Ch("\n**Error:** ")>>
              \o (IF error # <<>> THEN error ELSE <<Ch("(none)")>>)
              \o <<NL>>)

\* new_content with the entry before the existing entries
tool_log_content_prepend(bytes, entry) ==
    LET r == read_form_section(bytes, TOOL_CALLS_MARKER)
        existing == IF r.text = DEFAULT_PLACEHOLDER THEN <<>> ELSE r.text
    IN  IF strip(existing) # <<>> THEN entry \o <<NL>> \o strip(existing) ELSE entry

\* _append_tool_log: new_content, the existing log followed by the entry
tool_log_content(bytes, entry) ==
    LET r == read_form_section(bytes, TOOL_CALLS_MARKER)
        existing == IF r.text = DEFAULT_PLACEHOLDER THEN <<>> ELSE r.text
    IN  IF strip(existing) # <<>> THEN strip(existing) \o <<NL>> \o entry ELSE entry

_append_tool_log(bytes, i, tool_name, args, output, error) ==
    update_form_section(bytes, TOOL_CALLS_MARKER,
        tool_log_content(bytes, tool_log_entry(i, tool_name, args, output, error)),
        EXECUTION_LOG_HEADER)

\* DocumentOrchestrator.register_tool_call: appends a structured entry to
\* the STAGE4_TOOL_CALLS anchor (iteration, tool name, pretty-printed args,
\* output, error)
register_tool_call(bytes, i, tool_name, args, output, error) ==
    _append_tool_log(bytes, i, tool_name, args, output, error)

\* the anchor a stage's output is written to
StageAnchor(stage) ==
    CASE stage = "stage1" -> "STAGE1_ANALYSIS"
      [] stage = "stage2_candidate" -> "STAGE2A_ANALYSIS"
      [] stage = "stage2_selection" -> "STAGE2B_ANALYSIS"
      [] stage = "stage2_upgrade" -> "STAGE2C_ANALYSIS"
      [] stage = "stage3" -> "STAGE3_PLAN"
      [] OTHER -> "STAGE4_FINAL_ANSWER"

\* DocumentOrchestrator.register_stage_output: writes the normalized output
\* through the anchor store
register_stage_output(bytes, stage, text) ==
    update_form_section(bytes, StageAnchor(stage), text, NoHeader)

\* _extract_revised_plan that finds no plan block
_extract_revised_plan_none(response_text) == <<>>

\* WatcherAgent._extract_revised_plan: re.search of a plan fence, lazily up to the next fence;
\* <<>> is None
_extract_revised_plan(response_text) ==
    LET i == find(response_text, PlanFence, 1)
        closing == {j \in (i + 1)..Len(response_text) : response_text[j].k = "FENCE"}
        content == strip(SubSeq(response_text, i + 1, SetMin(closing) - 1))
    IN  IF i = 0 \/ closing = {} THEN <<>>
        ELSE IF content = <<Ch("NO_CHANGE")>> THEN <<>> ELSE content

\* WatcherAgent._write_audit_log
_write_audit_log(bytes, tool_name, audit_text) ==
    update_form_section(bytes, WATCHER_AUDIT_MARKER,
        <<AuditHead(tool_name), NL, NL>> \o audit_text, WATCHER_AUDIT_HEADER)

\* revise_plan that takes any plan block, equal to the current plan or not
revises_any_block(response_text, plan) ==
    _extract_revised_plan(response_text) # <<>>

\* WatcherAgent.revise_plan after the model replied: whether it revises
revises(response_text, plan) ==
    LET revised_plan == _extract_revised_plan(response_text)
    IN  revised_plan # <<>> /\ strip(revised_plan) # strip(plan)

\* an exception of revise_plan that leaves the loop
swallows_watcher_error_not == FALSE

\* `except Exception as exc: LOGGER.warning(...)` around revise_plan: the
\* exception is swallowed
swallows_watcher_error == TRUE

\* `while iteration < self._max_iterations`
loop_continues_off_by_one(i, max) == i <= max

loop_continues(i, max) == i < max

\* a final prompt whatever the last reply was
needs_final_prompt_always(text) == TRUE

\* `if self._parse_tool_calls(last_response_text)`
needs_final_prompt(text) == _parse_tool_calls(text) # <<>>

(***************************************************************************)
(* Stage 4 as the runner runs it (_run_stage4 -> analyze ->                *)
(* _run_live_document_loop -> register_stage_output), and the loop called  *)
(* without an orchestrator.  One action per step between two calls out of  *)
(* the loop (model, tool bridge, watcher).                                 *)
(***************************************************************************)
FINAL_ANSWER_MARKER == "STAGE4_FINAL_ANSWER"
LoopAnchors == {LIVE_PLAN_MARKER, TOOL_CALLS_MARKER, WATCHER_AUDIT_MARKER, FINAL_ANSWER_MARKER}

MaxIter == 2

PlaceholderBlock(a) == <<START(a), NL>> \o DEFAULT_PLACEHOLDER \o <<NL, END(a), NL>>
TextBlock(a, x) == <<START(a), NL>> \o x \o <<NL, END(a), NL>>

\* a template with every anchor of Stage 4, after Stage 3 wrote its plan
LoopDocFull ==
    <<Ch("title"), NL>> \o TextBlock(STAGE3_PLAN, <<Ch("plan step")>>)
        \o <<Hdr(LIVE_PLAN_HEADER), NL>> \o PlaceholderBlock(LIVE_PLAN_MARKER)
        \o <<Hdr(EXECUTION_LOG_HEADER), NL>> \o PlaceholderBlock(TOOL_CALLS_MARKER)
        \o PlaceholderBlock(FINAL_ANSWER_MARKER)
        \o <<Hdr(WATCHER_AUDIT_HEADER), NL>> \o PlaceholderBlock(WATCHER_AUDIT_MARKER)

\* a document without the anchors of Stage 4
LoopDocBare == <<Ch("title"), NL>> \o TextBlock(STAGE3_PLAN, <<Ch("plan step")>>)

\* a document that holds a live plan and a tool log already, and the
\* headers of the other anchors of Stage 4 without their anchors
LoopDocUsed ==
    <<Ch("title"), NL>> \o TextBlock(LIVE_PLAN_MARKER, <<Ch("old plan")>>)
        \o <<Hdr(EXECUTION_LOG_HEADER), NL>>
        \o TextBlock(TOOL_CALLS_MARKER, <<Ch("earlier entry")>>)
        \o <<Hdr(WATCHER_AUDIT_HEADER), NL>>

LoopDocs == {LoopDocFull, LoopDocBare, LoopDocUsed}

ToolLine(t) == <<Ch("tool"), COLON, SP, Ch(t), NL>>
ArgLine(key, x) == <<Ch(key), COLON, SP, JStr(x), NL>>

ReplyFinal == <<Ch("Final Answer: 4")>>
ReplyOneCall ==
    <<Ch("thought"), NL, OPEN, NL>> \o ToolLine("calculate") \o ArgLine("expression", "2+2")
        \o <<CLOSE>>
ReplyTwoCalls ==
    <<OPEN, NL>> \o ToolLine("calculate") \o ArgLine("expression", "1/0") \o <<CLOSE, NL>>
        \o <<OPEN, NL>> \o ToolLine("nope") \o <<CLOSE>>
\* a block that is never closed and a block without a tool key
ReplyMalformed ==
    <<OPEN, NL>> \o ArgLine("expression", "2+2") \o <<CLOSE, NL>>
        \o <<OPEN, NL>> \o ToolLine("calculate")
ReplyEmpty == <<>>

\* the replies of the executor's model
LoopReplies == {ReplyFinal, ReplyOneCall, ReplyTwoCalls, ReplyMalformed, ReplyEmpty}
\* the replies to the forced final prompt
ReplyForced == <<Ch("Final Answer: 4 (forced)")>>
FinalReplies == {ReplyForced, ReplyEmpty}

\* the replies of the watcher's model after a call of tool t
WatcherNoChange == <<PlanFence, NL, Ch("NO_CHANGE"), NL, Fence>>
WatcherPlan(t) ==
    <<Ch("diagnosis"), NL, PlanFence, NL, Ch("revised plan after "), Ch(t), NL, Fence>>
\* the current plan again, padded with blanks
WatcherSame(plan) == <<PlanFence, NL, SP>> \o plan \o <<SP, NL, Fence>>
\* no plan block, an empty plan block, and a NO_CHANGE block followed by a
\* second block that holds a plan
WatcherNoBlock == <<Ch("diagnosis only")>>
WatcherEmptyBlock == <<Ch("diagnosis"), NL, PlanFence, NL, Fence>>
WatcherTwoBlocks(t) == WatcherNoChange \o <<NL>> \o WatcherPlan(t)
WatcherReplies(t, plan) ==
    {WatcherNoChange, WatcherPlan(t), WatcherSame(plan), WatcherNoBlock, WatcherEmptyBlock,
     WatcherTwoBlocks(t)}

\* the replies the watcher's model can give to the request in flight
WatcherRepliesNow ==
    IF lpc = "await_watcher"
    THEN WatcherReplies(tool_calls[callIdx].tool, current_plan)
    ELSE {}

Unwritten == [a \in LoopAnchors |-> [set |-> FALSE, x |-> <<>>]]
Wrote(w, a, x) == [w EXCEPT ![a] = [set |-> TRUE, x |-> x]]

InitLoop ==
    /\ doc \in LoopDocs
    /\ lastOp = NoOp
    /\ written = Unwritten
    /\ CtxIdle
    /\ RunIdle
    /\ run_objective = <<Ch("objective")>>
    /\ UpgradeIdle
    /\ AuxIdle
    /\ lpc = "start"
    /\ max_iterations \in 0..MaxIter
    /\ hasWatcher \in BOOLEAN
    /\ hasOrchestrator \in BOOLEAN
    /\ iteration = 0
    /\ messages = <<>>
    /\ last_response_text = <<>>
    /\ tool_calls = <<>>
    /\ callIdx = 0
    /\ current_plan = <<>>
    /\ returnValue = <<>>
    /\ modelCalls = 0
    /\ finalPrompts = 0
    /\ dispatched = <<>>
    /\ watcherCall = NoWatcherCall

\* the objective the loop is called with
LoopObjective ==
    IF hasOrchestrator THEN _extract_section(build_context(ctx), "Objective")
    ELSE run_objective

\* _run_stage4 and analyze up to the loop: the context, the seed of the
\* live plan, the system message
Analyze ==
    /\ lpc = "start"
    /\ hasOrchestrator
    /\ LET context == create_stage4_context(doc, run_objective, <<>>, <<>>)
           text == build_context(context)
           obj == _extract_section(text, "Objective")
           execution_plan == _extract_section(text, "Stage 3 Execution Plan")
       IN  /\ ctx' = context
           /\ builder' = "stage4"
           /\ doc' = _init_live_plan(doc, execution_plan, obj)
           /\ written' = Wrote(written, LIVE_PLAN_MARKER, initial_plan(execution_plan, obj))
    /\ messages' = <<[role |-> "system", content |-> system_prompt]>>
    /\ lpc' = "head"
    /\ UNCHANGED <<lastOp, run_objective, upgradeVars, auxVars, runVars, max_iterations, hasWatcher,
                   hasOrchestrator, iteration, last_response_text, tool_calls, callIdx,
                   current_plan, returnValue, modelCalls, finalPrompts, dispatched, watcherCall>>

\* _run_live_document_loop called without an orchestrator
RunLoopDirect ==
    /\ lpc = "start"
    /\ ~hasOrchestrator
    /\ lpc' = "head"
    /\ UNCHANGED <<doc, storeVars, ctxVars, run_objective, upgradeVars, auxVars, runVars, max_iterations,
                   hasWatcher, hasOrchestrator, iteration, messages, last_response_text,
                   tool_calls, callIdx, current_plan, returnValue, modelCalls,
                   finalPrompts, dispatched, watcherCall>>

\* the head of an iteration up to the call of the model
IterationStart ==
    /\ lpc = "head"
    /\ loop_continues(iteration, max_iterations)
    /\ iteration' = iteration + 1
    /\ messages' = Append(messages,
           [role |-> "user",
            content |-> _build_iteration_prompt(read_live_plan(doc).text, iteration + 1)])
    /\ modelCalls' = modelCalls + 1
    /\ lpc' = "await_model"
    /\ UNCHANGED <<doc, storeVars, ctxVars, run_objective, upgradeVars, auxVars, runVars, max_iterations,
                   hasWatcher, hasOrchestrator, last_response_text, tool_calls, callIdx,
                   current_plan, returnValue, finalPrompts, dispatched, watcherCall>>

\* the model replied inside the loop
ModelReply(response_text) ==
    /\ lpc = "await_model"
    /\ messages' = Append(messages, [role |-> "assistant", content |-> response_text])
    /\ last_response_text' = response_text
    /\ tool_calls' = _parse_tool_calls(response_text)
    /\ IF _parse_tool_calls(response_text) = <<>>
       THEN lpc' = "break" /\ callIdx' = 0
       ELSE lpc' = "dispatch" /\ callIdx' = 1
    /\ UNCHANGED <<doc, storeVars, ctxVars, run_objective, upgradeVars, auxVars, runVars, max_iterations,
                   hasWatcher, hasOrchestrator, iteration, current_plan, returnValue,
                   modelCalls, finalPrompts, dispatched, watcherCall>>

\* the model raised: the exception leaves the loop
ModelRaises ==
    /\ lpc \in {"await_model", "await_final"}
    /\ lpc' = "raised"
    /\ UNCHANGED <<doc, storeVars, ctxVars, run_objective, upgradeVars, auxVars, runVars, max_iterations,
                   hasWatcher, hasOrchestrator, iteration, messages, last_response_text,
                   tool_calls, callIdx, current_plan, returnValue, modelCalls,
                   finalPrompts, dispatched, watcherCall>>

\* the position after the call at callIdx is done with
AfterCall ==
    IF callIdx < Len(tool_calls)
    THEN lpc' = "dispatch" /\ callIdx' = callIdx + 1
    ELSE lpc' = "head" /\ callIdx' = 0

\* one pass of `for call in tool_calls` up to the watcher's model call: the
\* tool is called, its result appended to the conversation and logged, and
\* revise_plan reads the live plan
Dispatch ==
    /\ lpc = "dispatch"
    /\ LET call == tool_calls[callIdx]
           result == call_tool(call.tool, call.args)
           entry == tool_log_entry(iteration, call.tool, call.args, result.output, result.error)
           logged == IF hasOrchestrator
                     THEN register_tool_call(doc, iteration, call.tool, call.args,
                                             result.output, result.error)
                     ELSE _append_tool_log(doc, iteration, call.tool, call.args,
                                           result.output, result.error)
           plan == read_live_plan(logged).text
       IN  IF call_raises(call.args)
           THEN /\ lpc' = "raised"
                /\ UNCHANGED <<doc, written, messages, dispatched, watcherCall, callIdx,
                               current_plan>>
           ELSE /\ messages' = Append(messages,
                       [role |-> "user", content |-> _format_tool_result(call, result)])
                /\ doc' = logged
                /\ written' = Wrote(written, TOOL_CALLS_MARKER, tool_log_content(doc, entry))
                /\ dispatched' = Append(dispatched,
                       [iteration |-> iteration, tool |-> call.tool, entry |-> entry])
                /\ IF hasWatcher /\ strip(plan) # <<>>
                   THEN /\ lpc' = "await_watcher"
                        /\ current_plan' = plan
                        /\ watcherCall' = [NoWatcherCall EXCEPT
                               !.call = Len(dispatched) + 1, !.plan = plan,
                               !.outcome = "pending", !.failed = watcherCall.failed]
                        /\ UNCHANGED callIdx
                   ELSE /\ AfterCall
                        /\ watcherCall' =
                               IF hasWatcher
                               THEN [NoWatcherCall EXCEPT
                                        !.call = Len(dispatched) + 1, !.plan = plan,
                                        !.outcome = "skipped", !.failed = watcherCall.failed]
                               ELSE watcherCall
                        /\ UNCHANGED current_plan
    /\ UNCHANGED <<lastOp, ctxVars, run_objective, upgradeVars, auxVars, runVars, max_iterations, hasWatcher,
                   hasOrchestrator, iteration, last_response_text, tool_calls, returnValue,
                   modelCalls, finalPrompts>>

\* the watcher's model replied: revise_plan writes the plan and the audit
\* log, or leaves the document alone
WatcherReply(response_text) ==
    /\ lpc = "await_watcher"
    /\ LET t == tool_calls[callIdx].tool
           revised_plan == _extract_revised_plan(response_text)
           audit == <<AuditHead(t), NL, NL>> \o response_text
       IN  IF revises(response_text, current_plan)
           THEN /\ doc' = _write_audit_log(update_live_plan(doc, revised_plan), t, response_text)
                /\ written' = Wrote(Wrote(written, LIVE_PLAN_MARKER, revised_plan),
                                    WATCHER_AUDIT_MARKER, audit)
           ELSE UNCHANGED <<doc, written>>
    /\ watcherCall' = [watcherCall EXCEPT !.outcome = "replied", !.reply = response_text,
                                          !.revised = revises(response_text, current_plan)]
    /\ AfterCall
    /\ UNCHANGED <<lastOp, ctxVars, run_objective, upgradeVars, auxVars, runVars, max_iterations, hasWatcher,
                   hasOrchestrator, iteration, messages, last_response_text, tool_calls,
                   current_plan, returnValue, modelCalls, finalPrompts, dispatched>>

\* revise_plan raised an Exception: the loop logs a warning and goes on (a
\* cancellation of the await is LoopCancelled)
WatcherRaises ==
    /\ lpc = "await_watcher"
    /\ IF swallows_watcher_error
       THEN AfterCall
       ELSE lpc' = "raised" /\ UNCHANGED callIdx
    /\ watcherCall' = [watcherCall EXCEPT !.outcome = "raised", !.failed = TRUE]
    /\ UNCHANGED <<doc, storeVars, ctxVars, run_objective, upgradeVars, auxVars, runVars, max_iterations,
                   hasWatcher, hasOrchestrator, iteration, messages, last_response_text,
                   tool_calls, current_plan, returnValue, modelCalls, finalPrompts,
                   dispatched>>

\* the task that runs the executor is cancelled while it waits for the
\* model or for revise_plan: asyncio.CancelledError is no Exception, so the
\* handler around revise_plan does not take it, and it leaves the loop with
\* the document and the conversation as they are
LoopCancelled ==
    /\ lpc \in {"await_model", "await_watcher", "await_final"}
    /\ lpc' = "cancelled"
    /\ watcherCall' = IF lpc = "await_watcher"
                      THEN [watcherCall EXCEPT !.outcome = "cancelled"]
                      ELSE watcherCall
    /\ UNCHANGED <<doc, storeVars, ctxVars, run_objective, upgradeVars, auxVars, runVars, max_iterations,
                   hasWatcher, hasOrchestrator, iteration, messages, last_response_text,
                   tool_calls, callIdx, current_plan, returnValue, modelCalls, finalPrompts,
                   dispatched>>

\* after the loop: the forced final prompt, or the return of the last reply
LoopEnd ==
    /\ \/ lpc = "head" /\ ~loop_continues(iteration, max_iterations)
       \/ lpc = "break"
    /\ IF needs_final_prompt(last_response_text)
       THEN /\ messages' = Append(messages,
                   [role |-> "user", content |-> FINAL_ANSWER_REQUIRED])
            /\ finalPrompts' = finalPrompts + 1
            /\ lpc' = "await_final"
            /\ UNCHANGED returnValue
       ELSE /\ returnValue' = last_response_text
            /\ lpc' = "returned"
            /\ UNCHANGED <<messages, finalPrompts>>
    /\ UNCHANGED <<doc, storeVars, ctxVars, run_objective, upgradeVars, auxVars, runVars, max_iterations,
                   hasWatcher, hasOrchestrator, iteration, last_response_text, tool_calls,
                   callIdx, current_plan, modelCalls, dispatched, watcherCall>>

\* the model replied to the forced final prompt
FinalReply(response_text) ==
    /\ lpc = "await_final"
    /\ returnValue' = response_text
    /\ lpc' = "returned"
    /\ UNCHANGED <<doc, storeVars, ctxVars, run_objective, upgradeVars, auxVars, runVars, max_iterations,
                   hasWatcher, hasOrchestrator, iteration, messages, last_response_text,
                   tool_calls, callIdx, current_plan, modelCalls, finalPrompts, dispatched, watcherCall>>

\* _run_stage4 after analyze_text returned: the output is registered
RegisterStage4 ==
    /\ lpc = "returned"
    /\ hasOrchestrator
    /\ doc' = register_stage_output(doc, "stage4", returnValue)
    /\ written' = Wrote(written, FINAL_ANSWER_MARKER, returnValue)
    /\ lpc' = "done"
    /\ UNCHANGED <<lastOp, ctxVars, run_objective, upgradeVars, auxVars, runVars, max_iterations, hasWatcher,
                   hasOrchestrator, iteration, messages, last_response_text, tool_calls,
                   callIdx, current_plan, returnValue, modelCalls, finalPrompts,
                   dispatched, watcherCall>>

NextLoop ==
    \/ Analyze
    \/ RunLoopDirect
    \/ IterationStart
    \/ \E r \in LoopReplies : ModelReply(r)
    \/ ModelRaises
    \/ Dispatch
    \/ \E r \in WatcherRepliesNow : WatcherReply(r)
    \/ WatcherRaises
    \/ LoopCancelled
    \/ LoopEnd
    \/ \E r \in FinalReplies : FinalReply(r)
    \/ RegisterStage4

SpecLoop == InitLoop /\ [][NextLoop]_vars

\* the executor is over: the loop returned (and the runner registered its
\* output) or an exception left it
LoopOver == lpc \in {"returned", "done", "raised", "cancelled"}
LoopReturned == lpc \in {"returned", "done"}

\* C5: during a run no two anchor writes interleave, so no write of the run
\* is lost: every anchor written in the run (live-plan seed, tool-log
\* append, watcher plan and audit writes, stage output) reads back as the
\* content of its latest write.
C5_NoLostWrite ==
    \A a \in LoopAnchors :
        written[a].set
            => read_form_section(doc, a)
                   = [found |-> TRUE, text |-> TrimmedOrPlaceholder(written[a].x)]

\* C5 witness: a run that seeded the plan, logged two tool calls, revised
\* the plan and wrote the audit log, and registered the output of Stage 4
C5_Witness ==
    /\ lpc = "done"
    /\ Len(dispatched) >= 2
    /\ \A a \in LoopAnchors : written[a].set
    /\ written[LIVE_PLAN_MARKER].x = <<Ch("revised plan after "), Ch("nope")>>

\* the places of the executor from which it takes a step
LoopRunning ==
    {"start", "head", "await_model", "dispatch", "await_watcher", "break", "await_final"}

\* what is left of a run, most significant first: the part of the executor
\* (before the loop, in it, after it), the iterations left, the place in
\* the iteration, the calls of the reply left, the place in a call
StepsLeft(pc, i, max, idx, calls) ==
    <<CASE pc = "start" -> 2
        [] pc \in {"head", "await_model", "dispatch", "await_watcher"} -> 1
        [] OTHER -> 0,
      IF pc \in {"head", "await_model", "dispatch", "await_watcher"} THEN max - i ELSE 0,
      CASE pc = "await_model" -> 3
        [] pc \in {"dispatch", "await_watcher"} -> 2
        [] pc = "head" -> 1
        [] OTHER -> 0,
      IF pc \in {"dispatch", "await_watcher"} THEN Len(calls) - idx ELSE 0,
      CASE pc = "break" -> 5
        [] pc = "await_final" -> 4
        [] pc = "returned" -> 3
        [] pc = "done" -> 2
        [] pc = "dispatch" -> 1
        [] OTHER -> 0>>

\* the lexicographic order of tuples of one length
LexLess(x, y) ==
    \E i \in 1..Len(x) : x[i] < y[i] /\ \A j \in 1..(i - 1) : x[j] = y[j]

C7_Bounded ==
    /\ modelCalls <= max_iterations
    /\ finalPrompts <= 1
    /\ lpc \in LoopRunning \cup {"returned", "done", "raised", "cancelled"}
    /\ \A i \in 1..5 :
           StepsLeft(lpc, iteration, max_iterations, callIdx, tool_calls)[i] \in Nat

C7_StepCloser ==
    LexLess(StepsLeft(lpc', iteration', max_iterations', callIdx', tool_calls'),
            StepsLeft(lpc, iteration, max_iterations, callIdx, tool_calls))

\* C7: the loop invokes the model at most max_iterations times inside the
\* loop plus at most one forced-finalization call, and then returns: it
\* terminates provided every model, tool and watcher call returns. Every
\* step of the executor (a return of a model, tool or watcher call
\* included) brings a tuple of naturals down in the lexicographic order, so
\* no run takes steps for ever, and the places it stops at are the return,
\* the raise and the cancellation.
C7_BoundedAndTerminates == []C7_Bounded /\ [][C7_StepCloser]_vars

\* C7 witness: the loop used all its iterations and the forced final call
C7_Witness ==
    /\ lpc = "returned"
    /\ max_iterations = MaxIter
    /\ modelCalls = max_iterations
    /\ finalPrompts = 1

\* the replies of the model that hold at least one well-formed tool call
RepliesWithCalls == {ReplyOneCall, ReplyTwoCalls}

AssistantMessages == SelectSeq(messages, LAMBDA m : m.role = "assistant")
FinalPromptMessages ==
    SelectSeq(messages, LAMBDA m : m.role = "user" /\ m.content = FINAL_ANSWER_REQUIRED)
LastAssistantHadCalls ==
    /\ AssistantMessages # <<>>
    /\ AssistantMessages[Len(AssistantMessages)].content \in RepliesWithCalls

\* C8: when the loop exits, the engine sends the [FINAL_ANSWER_REQUIRED]
\* message exactly once and returns the model's reply to it if the last
\* assistant message held at least one parsed tool call; otherwise it sends
\* no finalization message and returns the last assistant message.
C8_FinalPromptIffCalls ==
    LoopReturned =>
        IF LastAssistantHadCalls
        THEN /\ finalPrompts = 1
             /\ Len(FinalPromptMessages) = 1
             /\ messages[Len(messages)].content = FINAL_ANSWER_REQUIRED
             /\ returnValue \in FinalReplies
        ELSE /\ finalPrompts = 0
             /\ FinalPromptMessages = <<>>
             /\ returnValue = IF AssistantMessages = <<>> THEN <<>>
                              ELSE AssistantMessages[Len(AssistantMessages)].content

\* C8 witness: the last reply of the loop held tool calls and the loop
\* returned the reply to the forced final prompt
C8_Witness ==
    /\ LoopReturned
    /\ LastAssistantHadCalls
    /\ returnValue = ReplyForced

\* C9: with max_iterations = 0 the loop still sends the forced final-answer
\* prompt to the model and returns a non-empty response.
C9_ZeroIterationsForcedFinal ==
    (max_iterations = 0 /\ LoopReturned)
        => (finalPrompts = 1 /\ returnValue # <<>>)

\* the tool names of the [TOOL_CALL] blocks of a reply, in the order of the
\* blocks
BlocksOf(reply) ==
    CASE reply = ReplyOneCall -> <<"calculate">>
      [] reply = ReplyTwoCalls -> <<"calculate", "nope">>
      [] OTHER -> <<>>

\* the headings of the entries of all the blocks of the replies so far: the
\* blocks of reply i (iteration i) in their order, before those of reply i+1
RECURSIVE HeadingsFrom(_, _)
HeadingsFrom(replies, i) ==
    IF replies = <<>> THEN <<>>
    ELSE LET blocks == BlocksOf(Head(replies).content)
         IN  [j \in 1..Len(blocks) |-> Iter(blocks[j], i)]
                 \o HeadingsFrom(Tail(replies), i + 1)

\* the content of STAGE4_TOOL_CALLS, and the headings of its entries
ToolLogOf(bytes) == read_form_section(bytes, TOOL_CALLS_MARKER).text
ToolLog == ToolLogOf(doc)
ToolLogHeadings == SelectSeq(ToolLog, LAMBDA t : t.k = "ITER")

\* the log holds one entry per dispatched call, in dispatch order
C10_LogInDispatchOrder ==
    /\ Len(dispatched) <= Len(HeadingsFrom(AssistantMessages, 1))
    /\ ToolLogHeadings = SubSeq(HeadingsFrom(AssistantMessages, 1), 1, Len(dispatched))
    /\ lpc \in {"head", "returned", "done"}
           => Len(dispatched) = Len(HeadingsFrom(AssistantMessages, 1))

\* a step leaves the earlier entries of the log where they are
C10_LogOnlyGrows ==
    \/ ToolLog \in {<<>>, DEFAULT_PLACEHOLDER}
    \/ /\ Len(ToolLogOf(doc')) >= Len(ToolLog)
       /\ SubSeq(ToolLogOf(doc'), 1, Len(ToolLog)) = ToolLog

\* C10: STAGE4_TOOL_CALLS holds one entry per dispatched tool call, in
\* dispatch order (the entries of one iteration in the order of their
\* [TOOL_CALL] blocks, iteration i before iteration i+1), and appending an
\* entry never removes or reorders earlier entries.
C10_ToolLogOrder == []C10_LogInDispatchOrder /\ [][C10_LogOnlyGrows]_vars

\* C10 witness: a log that held an entry before the run and got the entries
\* of two iterations, two of them from one reply
C10_Witness ==
    /\ Len(dispatched) >= 3
    /\ iteration = 2
    /\ ToolLog[1] = Ch("earlier entry")
    /\ Len(ToolLogHeadings) = Len(dispatched)

(***************************************************************************)
(* FullPipelineRunner.run (workflow/full_pipeline_runner.py) from the      *)
(* point where the document is adopted and the orchestrator made: one      *)
(* action per step between two awaits of the runner.  Stage 4 is the       *)
(* executor above, run with the orchestrator.                              *)
(***************************************************************************)
\* self._stage2_selection_retry_attempts
stage2_selection_retry_attempts == 3

\* a last attempt that allows one more call than configured
last_attempt_off_by_one(retries, retry_attempts) == retries > retry_attempts

\* `if retries >= self._stage2_selection_retry_attempts: raise`
last_attempt(retries, retry_attempts) == retries >= retry_attempts

\* every stage run with the retry loop of Stage 2B
runs_with_retries_every_stage(stage) == TRUE

\* the stage whose agent run awaits through
\* _run_stage2_selection_with_retries
runs_with_retries(stage) == stage = "stage2_selection"

\* the iterations of the executor in a run of the pipeline (the runner
\* builds the executor with its default, 10)
MaxRunIter == 1

\* run with Stage 4 before Stage 3
run_next_stage4_first(stage) ==
    CASE stage = "" -> "stage1"
      [] stage = "stage1" -> "stage2_candidate"
      [] stage = "stage2_candidate" -> "stage2_selection"
      [] stage = "stage2_selection" -> "stage2_upgrade"
      [] stage = "stage2_upgrade" -> "stage4"
      [] stage = "stage4" -> "stage3"
      [] stage = "stage3" -> "capability_upgrade"
      [] OTHER -> ""

\* run: the _run_* call that follows the return of a stage ("" is the
\* start of run, and the end)
run_next(stage) ==
    CASE stage = "" -> "stage1"
      [] stage = "stage1" -> "stage2_candidate"
      [] stage = "stage2_candidate" -> "stage2_selection"
      [] stage = "stage2_selection" -> "stage2_upgrade"
      [] stage = "stage2_upgrade" -> "stage3"
      [] stage = "stage3" -> "stage4"
      [] stage = "stage4" -> "capability_upgrade"
      [] OTHER -> ""

\* the context a _run_* method builds for its agent (Stage 4: Analyze)
stage_context(stage, bytes, obj) ==
    CASE stage = "stage1" -> create_stage1_context(bytes, obj, <<>>)
      [] stage = "stage2_candidate" -> create_stage2a_context(bytes, obj, <<>>)
      [] stage = "stage2_selection" -> create_stage2b_context(bytes, obj, <<>>)
      [] stage = "stage2_upgrade" -> create_stage2b_context(bytes, <<>>, <<>>)
      [] stage = "stage3" -> create_stage3_context(bytes, obj, <<>>, <<>>)
      [] OTHER -> create_stage1_context(bytes, <<>>, <<>>)

\* the builder behind stage_context
stage_builder(stage) ==
    CASE stage = "stage1" -> "stage1"
      [] stage = "stage2_candidate" -> "stage2a"
      [] stage = "stage2_selection" -> "stage2b"
      [] stage = "stage2_upgrade" -> "stage2b"
      [] stage = "stage3" -> "stage3"
      [] OTHER -> "stage1"

\* _normalize_stage_output of the str an agent's analyze_text or
\* evaluate_text returns
_normalize_stage_output(value) == value

\* what a _run_* method returns for the text of its agent; none is None
stage_result(stage, result_text) ==
    LET normalized == _normalize_stage_output(result_text)
    IN  IF stage \in {"stage2_upgrade", "capability_upgrade"}
        THEN [none |-> strip(normalized) = <<>>, text |-> strip(normalized)]
        ELSE [none |-> FALSE, text |-> normalized]

\* whether a _run_* method registers what it returns
registers(stage, result) ==
    CASE stage = "capability_upgrade" -> FALSE
      [] stage = "stage2_upgrade" -> ~result.none
      [] OTHER -> TRUE

RunAnchors ==
    <<"STAGE1_ANALYSIS", "STAGE2A_ANALYSIS", "STAGE2B_ANALYSIS", "STAGE2C_ANALYSIS",
      STAGE3_PLAN>>

RECURSIVE PlaceholderBlocks(_)
PlaceholderBlocks(anchors) ==
    IF anchors = <<>> THEN <<>>
    ELSE PlaceholderBlock(Head(anchors)) \o PlaceholderBlocks(Tail(anchors))

\* the adopted document: a template with every anchor, EXTERNAL_INFO written
RunDocFull ==
    <<Ch("title"), NL>> \o TextBlock("EXTERNAL_INFO", <<Ch("external info")>>)
        \o PlaceholderBlocks(RunAnchors)
        \o <<Hdr(LIVE_PLAN_HEADER), NL>> \o PlaceholderBlock(LIVE_PLAN_MARKER)
        \o <<Hdr(EXECUTION_LOG_HEADER), NL>> \o PlaceholderBlock(TOOL_CALLS_MARKER)
        \o PlaceholderBlock(FINAL_ANSWER_MARKER)
        \o <<Hdr(WATCHER_AUDIT_HEADER), NL>> \o PlaceholderBlock(WATCHER_AUDIT_MARKER)

\* an adopted document that holds no anchor of a stage
RunDocBare == <<Ch("title"), NL>> \o TextBlock("EXTERNAL_INFO", <<Ch("external info")>>)

RunDocs == {RunDocFull, RunDocBare}

\* the texts the agent of a stage returns
AgentText(stage) == <<Ch("output of "), Ch(stage)>>
AgentTexts(stage) ==
    CASE stage \in {"stage1", "capability_upgrade"} -> {AgentText(stage), <<>>}
      [] stage = "stage2_upgrade" -> {AgentText(stage), <<SP, NL>>}
      [] OTHER -> {AgentText(stage)}

\* the agents the runner awaits itself (Stage 4 runs as the executor)
PlainStages ==
    {"stage1", "stage2_candidate", "stage2_selection", "stage2_upgrade", "stage3",
     "capability_upgrade"}

InitRun ==
    /\ doc \in RunDocs
    /\ lastOp = NoOp
    /\ written = Unwritten
    /\ CtxIdle
    /\ run_objective = <<Ch("objective")>>
    /\ UpgradeIdle
    /\ AuxIdle
    /\ rpc = [stage |-> run_next(""), phase |-> "call"]
    /\ attempts = 0
    /\ outputs = <<>>
    /\ invoked = <<>>
    /\ inProgress = {}
    /\ registered = {}
    /\ lpc = "idle"
    /\ max_iterations = MaxRunIter
    /\ hasWatcher \in BOOLEAN
    /\ hasOrchestrator = TRUE
    /\ iteration = 0
    /\ messages = <<>>
    /\ last_response_text = <<>>
    /\ tool_calls = <<>>
    /\ callIdx = 0
    /\ current_plan = <<>>
    /\ returnValue = <<>>
    /\ modelCalls = 0
    /\ finalPrompts = 0
    /\ dispatched = <<>>
    /\ watcherCall = NoWatcherCall

\* a _run_* method up to the await of its agent: the context is built and
\* the agent invoked
InvokeStage ==
    /\ rpc.phase = "call"
    /\ rpc.stage \in PlainStages
    /\ ctx' = stage_context(rpc.stage, doc, run_objective)
    /\ builder' = stage_builder(rpc.stage)
    /\ invoked' = Append(invoked, rpc.stage)
    /\ inProgress' = inProgress \cup {rpc.stage}
    /\ attempts' = 0
    /\ rpc' = [rpc EXCEPT !.phase = "await"]
    /\ UNCHANGED <<doc, storeVars, run_objective, upgradeVars, auxVars, outputs, registered, loopVars>>

\* the agent returned: the output is normalized and registered, and run goes
\* on to the next stage (after the last one finalize_document, which leaves
\* the document as it is, and the return of run)
StageReturns(result_text) ==
    /\ rpc.phase = "await"
    /\ rpc.stage \in PlainStages
    /\ LET result == stage_result(rpc.stage, result_text)
       IN  /\ outputs' = Append(outputs, [stage |-> rpc.stage, none |-> result.none,
                                          text |-> result.text])
           /\ IF registers(rpc.stage, result)
              THEN /\ doc' = register_stage_output(doc, rpc.stage, result.text)
                   /\ registered' = registered \cup {rpc.stage}
              ELSE UNCHANGED <<doc, registered>>
    /\ inProgress' = inProgress \ {rpc.stage}
    /\ rpc' = IF run_next(rpc.stage) = "" THEN [stage |-> "", phase |-> "done"]
              ELSE [stage |-> run_next(rpc.stage), phase |-> "call"]
    /\ UNCHANGED <<storeVars, ctxVars, run_objective, upgradeVars, auxVars, attempts, invoked, loopVars>>

\* the agent raised an exception that is no httpx.HTTPError (or a stage
\* other than Stage 2B raised one): it is logged and leaves run
StageRaises ==
    /\ rpc.phase = "await"
    /\ rpc.stage \in PlainStages
    /\ inProgress' = inProgress \ {rpc.stage}
    /\ rpc' = [rpc EXCEPT !.phase = "raised"]
    /\ UNCHANGED <<doc, storeVars, ctxVars, run_objective, upgradeVars, auxVars, attempts, outputs, invoked,
                   registered, loopVars>>

\* _run_stage2_selection_with_retries: the agent of Stage 2B raised an
\* httpx.HTTPError; the error is counted and, unless this was the last
\* attempt, the method waits in `await asyncio.sleep(retry_delay)`
Stage2BHttpError ==
    /\ rpc.phase = "await"
    /\ rpc.stage \in PlainStages
    /\ runs_with_retries(rpc.stage)
    /\ attempts' = attempts + 1
    /\ IF last_attempt(attempts + 1, stage2_selection_retry_attempts)
       THEN /\ inProgress' = inProgress \ {rpc.stage}
            /\ rpc' = [rpc EXCEPT !.phase = "raised"]
       ELSE /\ rpc' = [rpc EXCEPT !.phase = "sleep"]
            /\ UNCHANGED inProgress
    /\ UNCHANGED <<doc, storeVars, ctxVars, run_objective, upgradeVars, auxVars, outputs, invoked,
                   registered, loopVars>>

\* _run_stage2_selection_with_retries: the sleep is over and the loop calls
\* the agent of Stage 2B again, with the context built before the first
\* attempt
Stage2BRetry ==
    /\ rpc.phase = "sleep"
    /\ invoked' = Append(invoked, rpc.stage)
    /\ rpc' = [rpc EXCEPT !.phase = "await"]
    /\ UNCHANGED <<doc, storeVars, ctxVars, run_objective, upgradeVars, auxVars, attempts, outputs,
                   inProgress, registered, loopVars>>

\* the task that runs run is cancelled while it waits for the agent of a
\* stage or in the sleep between two attempts of Stage 2B: neither
\* `except Exception` nor `except httpx.HTTPError` takes
\* asyncio.CancelledError, which leaves run unlogged
StageCancelled ==
    /\ rpc.phase \in {"await", "sleep"}
    /\ rpc.stage \in PlainStages
    /\ inProgress' = inProgress \ {rpc.stage}
    /\ rpc' = [rpc EXCEPT !.phase = "cancelled"]
    /\ UNCHANGED <<doc, storeVars, ctxVars, run_objective, upgradeVars, auxVars, attempts, outputs, invoked,
                   registered, loopVars>>

\* _run_stage4 up to the executor's analyze_text
InvokeStage4 ==
    /\ rpc = [stage |-> "stage4", phase |-> "call"]
    /\ lpc = "idle"
    /\ lpc' = "start"
    /\ invoked' = Append(invoked, "stage4")
    /\ inProgress' = inProgress \cup {"stage4"}
    /\ rpc' = [rpc EXCEPT !.phase = "await"]
    /\ UNCHANGED <<doc, storeVars, ctxVars, run_objective, upgradeVars, auxVars, attempts, outputs, registered,
                   max_iterations, hasWatcher, hasOrchestrator, iteration, messages,
                   last_response_text, tool_calls, callIdx, current_plan, returnValue,
                   modelCalls, finalPrompts, dispatched, watcherCall>>

\* _run_stage4 returns what it registered
Stage4Returns ==
    /\ rpc = [stage |-> "stage4", phase |-> "await"]
    /\ lpc = "done"
    /\ outputs' = Append(outputs, [stage |-> "stage4", none |-> FALSE,
                                   text |-> _normalize_stage_output(returnValue)])
    /\ registered' = registered \cup {"stage4"}
    /\ inProgress' = inProgress \ {"stage4"}
    /\ rpc' = [stage |-> run_next("stage4"), phase |-> "call"]
    /\ UNCHANGED <<doc, storeVars, ctxVars, run_objective, upgradeVars, auxVars, attempts, invoked, loopVars>>

\* the executor raised: the exception is logged and leaves run
Stage4Raises ==
    /\ rpc = [stage |-> "stage4", phase |-> "await"]
    /\ lpc = "raised"
    /\ inProgress' = inProgress \ {"stage4"}
    /\ rpc' = [rpc EXCEPT !.phase = "raised"]
    /\ UNCHANGED <<doc, storeVars, ctxVars, run_objective, upgradeVars, auxVars, attempts, outputs, invoked,
                   registered, loopVars>>

\* the cancellation left the executor: it leaves _run_stage4 and run
Stage4Cancelled ==
    /\ rpc = [stage |-> "stage4", phase |-> "await"]
    /\ lpc = "cancelled"
    /\ inProgress' = inProgress \ {"stage4"}
    /\ rpc' = [rpc EXCEPT !.phase = "cancelled"]
    /\ UNCHANGED <<doc, storeVars, ctxVars, run_objective, upgradeVars, auxVars, attempts, outputs, invoked,
                   registered, loopVars>>

NextRun ==
    \/ InvokeStage
    \/ \E s \in PlainStages : \E t \in AgentTexts(s) : rpc.stage = s /\ StageReturns(t)
    \/ StageRaises
    \/ Stage2BHttpError
    \/ Stage2BRetry
    \/ StageCancelled
    \/ InvokeStage4
    \/ Analyze
    \/ IterationStart
    \/ \E r \in LoopReplies : ModelReply(r)
    \/ ModelRaises
    \/ Dispatch
    \/ \E r \in WatcherRepliesNow : WatcherReply(r)
    \/ WatcherRaises
    \/ LoopCancelled
    \/ LoopEnd
    \/ \E r \in FinalReplies : FinalReply(r)
    \/ RegisterStage4
    \/ Stage4Returns
    \/ Stage4Raises
    \/ Stage4Cancelled

SpecRun == InitRun /\ [][NextRun]_vars

\* the stages in the order of the claim
FixedOrder ==
    <<"stage1", "stage2_candidate", "stage2_selection", "stage2_upgrade", "stage3",
      "stage4", "capability_upgrade">>

\* the anchor that holds the output of a stage; "" for the capability upgrade,
\* whose output goes to no anchor
OutputAnchor(stage) ==
    CASE stage = "stage1" -> "STAGE1_ANALYSIS"
      [] stage = "stage2_candidate" -> "STAGE2A_ANALYSIS"
      [] stage = "stage2_selection" -> "STAGE2B_ANALYSIS"
      [] stage = "stage2_upgrade" -> "STAGE2C_ANALYSIS"
      [] stage = "stage3" -> "STAGE3_PLAN"
      [] stage = "stage4" -> "STAGE4_FINAL_ANSWER"
      [] OTHER -> ""

\* the invocations with the repeated attempts of one stage taken as one
InvokedStages ==
    LET firsts == {i \in 1..Len(invoked) : i = 1 \/ invoked[i] # invoked[i - 1]}
    IN  keep_where(invoked, LAMBDA i : i \in firsts)

\* the stage has returned, and its output, if any, is in the document
ReturnedAndRegistered(stage) ==
    \E i \in 1..Len(outputs) :
        /\ outputs[i].stage = stage
        /\ (~outputs[i].none /\ OutputAnchor(stage) # "")
               => /\ stage \in registered
                  /\ read_form_section(doc, OutputAnchor(stage))
                         = [found |-> TRUE, text |-> TrimmedOrPlaceholder(outputs[i].text)]

C1_InOrder ==
    /\ Cardinality(inProgress) <= 1
    /\ Len(InvokedStages) <= Len(FixedOrder)
    /\ InvokedStages = SubSeq(FixedOrder, 1, Len(InvokedStages))

\* when an agent is invoked, no stage is in progress but its own (an attempt
\* of Stage 2B that failed), and every stage before its own has returned
\* and has its output registered
C1_InvokedAfterPrevious ==
    invoked' # invoked =>
        LET stage == invoked'[Len(invoked')]
            k == CHOOSE j \in 1..Len(FixedOrder) : FixedOrder[j] = stage
        IN  /\ inProgress \subseteq {stage}
            /\ stage \in inProgress => invoked[Len(invoked)] = stage
            /\ \A j \in 1..(k - 1) : ReturnedAndRegistered(FixedOrder[j])

\* C1: run invokes the stage agents strictly sequentially in the fixed order
\* Stage 1, 2A, 2B, 2C, 3, 4, capability upgrade: no stage's agent is invoked
\* before the previous stage has returned and its normalized output (if any)
\* has been registered with the document, and no two stages are ever in
\* progress at once.
C1_StrictlySequential == []C1_InOrder /\ [][C1_InvokedAfterPrevious]_vars

\* C1 witness: a run through all seven stages, with a retry of Stage 2B, an
\* output of Stage 2C and tool calls in Stage 4
C1_Witness ==
    /\ rpc.phase = "done"
    /\ InvokedStages = FixedOrder
    /\ Len(invoked) > Len(FixedOrder)
    /\ "stage2_upgrade" \in registered
    /\ dispatched # <<>>

(***************************************************************************)
(* The watcher inside the tool loop (SpecLoop).                            *)
(***************************************************************************)
NO_CHANGE == <<Ch("NO_CHANGE")>>

\* the plan blocks of a watcher reply: for every opening plan fence that is
\* followed by a fence, its position and the trimmed text in between
PlanBlocks(reply) ==
    {[at |-> i,
      content |-> strip(SubSeq(reply, i + 1,
                     SetMin({j \in (i + 1)..Len(reply) : reply[j].k = "FENCE"}) - 1))] :
        i \in {i \in 1..Len(reply) :
                  /\ reply[i] = PlanFence
                  /\ \E j \in (i + 1)..Len(reply) : reply[j].k = "FENCE"}}

\* the plan a reply asks for, going by its first plan block: a block that is
\* not empty, is not NO_CHANGE and differs from the trimmed current plan
NewPlanIn(reply, plan) ==
    {b.content : b \in {b \in PlanBlocks(reply) :
                            /\ \A c \in PlanBlocks(reply) : b.at <= c.at
                            /\ b.content # <<>>
                            /\ b.content # NO_CHANGE
                            /\ b.content # strip(plan)}}

\* the plan a reply asks for, going by any of its plan blocks: a block that
\* is not NO_CHANGE and differs from the trimmed current plan
OtherPlanIn(reply, plan) ==
    {b.content : b \in {b \in PlanBlocks(reply) :
                            b.content # NO_CHANGE /\ b.content # strip(plan)}}

\* the revise_plan call made last has returned or raised
WatcherDone == watcherCall.outcome \in {"replied", "raised", "skipped"}

\* the live plan a revise_plan call that is over must have left in the
\* document
PlanAfter(w) ==
    IF w.outcome = "replied" /\ NewPlanIn(w.reply, w.plan) # {}
    THEN CHOOSE x \in NewPlanIn(w.reply, w.plan) : TRUE
    ELSE strip(w.plan)

\* once revise_plan is over, the live plan of the document is the revised one
C11_RevisionDurable ==
    WatcherDone => read_live_plan(doc).text = PlanAfter(watcherCall)

\* a call is dispatched only when the revise_plan call for the call before
\* it is over
C11_DispatchAfterRevision ==
    dispatched' # dispatched =>
        /\ lpc = "dispatch"
        /\ watcherCall.outcome # "pending"
        /\ (hasWatcher /\ dispatched # <<>>)
               => (WatcherDone /\ watcherCall.call = Len(dispatched))

\* the prompt of an iteration carries the plan the watcher left
C11_PromptCarriesRevision ==
    (modelCalls' # modelCalls /\ WatcherDone) =>
        messages'[Len(messages')].content
            = _build_iteration_prompt(PlanAfter(watcherCall), iteration')

\* C11: within the tool loop, for consecutive tool calls k and k+1 (in the
\* same iteration or in successive iterations), the watcher's revise_plan
\* for call k has completed, including its write to LIVE_EXECUTION_PLAN,
\* before call k+1 is dispatched to the tool bridge; the plan read at the
\* start of the next iteration is the revised one.
C11_RevisionBeforeNextCall ==
    /\ []C11_RevisionDurable
    /\ [][C11_DispatchAfterRevision /\ C11_PromptCarriesRevision]_vars

\* C11 witness: two calls were dispatched in the first iteration, the
\* watcher revised the plan after the second one, and the prompt of the
\* second iteration carries that plan
C11_Witness ==
    /\ lpc = "await_model"
    /\ iteration = 2
    /\ Len(dispatched) = 2
    /\ dispatched[1].iteration = 1
    /\ dispatched[2].iteration = 1
    /\ watcherCall.call = 2
    /\ watcherCall.revised
    /\ messages[Len(messages)].content
           = _build_iteration_prompt(<<Ch("revised plan after "), Ch(dispatched[2].tool)>>, 2)

\* the number of calls parsed from the assistant messages so far
ParsedCalls == Len(HeadingsFrom(AssistantMessages, 1))

\* the step in which a revise_plan call returns or fails goes on with the
\* loop: to the next call of the iteration, or to the next iteration after
\* the last call (the only other step from the await is the cancellation of
\* the task, which is no failure of revise_plan)
C12_LoopGoesOn ==
    (lpc = "await_watcher" /\ watcherCall'.outcome \in {"replied", "raised"}) =>
        IF callIdx < Len(tool_calls)
        THEN lpc' = "dispatch" /\ callIdx' = callIdx + 1
        ELSE lpc' = "head" /\ callIdx' = 0

\* after a failure of revise_plan every call of every reply is still
\* dispatched and logged by the end of its iteration
C12_CallsStillDispatched ==
    (watcherCall.failed /\ lpc \in {"head", "await_model", "await_final", "returned", "done"})
        => (Len(dispatched) = ParsedCalls /\ Len(ToolLogHeadings) = ParsedCalls)

\* C12: if the watcher's revise_plan fails for a tool call, the tool loop
\* does not abort: the remaining tool calls of the same iteration are still
\* dispatched and logged, later iterations still run, and the loop returns a
\* final response.
C12_WatcherFailureTolerated ==
    []C12_CallsStillDispatched /\ [][C12_LoopGoesOn]_vars

\* C12 witness: revise_plan raised, calls were dispatched and revised after
\* it, a second iteration ran and the loop returned a response
C12_Witness ==
    /\ watcherCall.failed
    /\ watcherCall.outcome = "replied"
    /\ iteration = 2
    /\ Len(dispatched) >= 3
    /\ lpc = "returned"
    /\ returnValue # <<>>

\* the step of revise_plan after its model replied
WatcherReplied == lpc = "await_watcher" /\ watcherCall'.outcome = "replied"

\* the audit entry revise_plan writes with a revision
AuditOf(w) ==
    strip(<<AuditHead(dispatched[w.call].tool), NL, NL>> \o w.reply)

\* C13 as stated: revise_plan overwrites LIVE_EXECUTION_PLAN (and returns
\* true) if and only if the model's reply contains a plan block whose
\* trimmed content is not NO_CHANGE and differs from the trimmed current
\* plan; in every other case LIVE_EXECUTION_PLAN and WATCHER_AUDIT are left
\* unchanged.
C13_Rule ==
    WatcherReplied =>
        LET w == watcherCall'
        IN  IF OtherPlanIn(w.reply, w.plan) # {}
            THEN w.revised /\ read_live_plan(doc').text \in OtherPlanIn(w.reply, w.plan)
            ELSE ~w.revised /\ doc' = doc

C13_AsStated == [][C13_Rule]_vars

\* the rule with the first plan block of the reply, which must not be empty
C13_RuleFirstBlock ==
    WatcherReplied =>
        LET w == watcherCall'
        IN  IF NewPlanIn(w.reply, w.plan) # {}
            THEN /\ w.revised
                 /\ read_live_plan(doc').text \in NewPlanIn(w.reply, w.plan)
                 /\ read_form_section(doc', WATCHER_AUDIT_MARKER).text = AuditOf(w)
            ELSE ~w.revised /\ doc' = doc

\* C13 (amended): revise_plan overwrites LIVE_EXECUTION_PLAN (and returns
\* true) if and only if the first plan block of the model's reply has a
\* trimmed content that is not empty, is not NO_CHANGE and differs from the
\* trimmed current plan; in every other case (NO_CHANGE, no plan block, an
\* empty block, identical plan) the document is left unchanged.
C13_RevisesIffNewPlan == [][C13_RuleFirstBlock]_vars

\* C13 witness: a reply with a new plan was written, and the call returned
\* true
C13_Witness ==
    /\ watcherCall.outcome = "replied"
    /\ watcherCall.revised
    /\ watcherCall.reply = WatcherPlan(dispatched[watcherCall.call].tool)
    /\ read_live_plan(doc).text
           = <<Ch("revised plan after "), Ch(dispatched[watcherCall.call].tool)>>
    /\ read_form_section(doc, WATCHER_AUDIT_MARKER).text = AuditOf(watcherCall)

(***************************************************************************)
(* The tool loop on replies made of [TOOL_CALL] blocks of every shape:     *)
(* _parse_tool_calls (Executor_agent.py:269-336) and the dispatch of the   *)
(* parsed calls (188-222), one iteration, no watcher, no orchestrator.     *)
(***************************************************************************)
MaxBlocks == 3

\* the shapes of a block: a call that succeeds, a call whose tool raises
\* inside, an unregistered tool, an argument the tool does not accept, an
\* argument named tool_name, a block that is never closed, a block without
\* a tool key; and three with a `code` key: a snippet of three lines, one of
\* them blank, a snippet on indented lines that a top-level key ends, a
\* snippet given as a JSON string that a key which is an identifier ends
BlockKinds ==
    {"calc", "div", "nope", "badkw", "toolname", "unclosed", "notool", "code", "codekey",
     "codenote"}

RenderBlock(kind) ==
    <<Ch("thought"), NL, OPEN, NL>>
        \o (CASE kind = "calc" -> ToolLine("calculate") \o ArgLine("expression", "2+2")
                                      \o <<CLOSE>>
              [] kind = "div" -> ToolLine("calculate") \o ArgLine("expression", "1/0")
                                     \o <<CLOSE>>
              [] kind = "nope" -> ToolLine("nope") \o ArgLine("expression", "2+2")
                                      \o <<CLOSE>>
              [] kind = "badkw" -> ToolLine("calculate") \o ArgLine("expression", "2+2")
                                       \o ArgLine("verbose", "yes") \o <<CLOSE>>
              [] kind = "toolname" -> ToolLine("calculate") \o ArgLine("tool_name", "x")
                                          \o <<CLOSE>>
              [] kind = "unclosed" -> ToolLine("calculate") \o ArgLine("expression", "2+2")
              [] kind = "code" ->
                     ToolLine("code_interpreter")
                         \o <<Ch("code"), COLON, SP, Ch("a = 1"), NL, NL, Ch("print(a)"), NL,
                              CLOSE>>
              [] kind = "codekey" ->
                     ToolLine("calculate")
                         \o <<Ch("code"), COLON, NL, SP, SP, Ch("d = {1"), COLON, SP, Ch("2}"),
                              NL, SP, SP, SP, Ch("x"), COLON, SP, Ch("1"), NL, SP, SP>>
                         \o ArgLine("expression", "2+2") \o <<CLOSE>>
              [] kind = "codenote" ->
                     ToolLine("code_interpreter") \o ArgLine("code", "a = 1")
                         \o <<Ch("note"), COLON, SP, Ch("n"), NL, CLOSE>>
              [] OTHER -> ArgLine("expression", "2+2") \o <<CLOSE>>)
        \o <<NL>>

RECURSIVE RenderBlocks(_)
RenderBlocks(blocks) ==
    IF blocks = <<>> THEN <<>>
    ELSE RenderBlock(Head(blocks)) \o RenderBlocks(Tail(blocks))

BlockSeqs == UNION {[1..n -> BlockKinds] : n \in 1..MaxBlocks}
BlockReplies == {RenderBlocks(b) : b \in BlockSeqs}

InitBlocks ==
    /\ doc = LoopDocFull
    /\ lastOp = NoOp
    /\ written = Unwritten
    /\ CtxIdle
    /\ RunIdle
    /\ run_objective = <<Ch("objective")>>
    /\ UpgradeIdle
    /\ AuxIdle
    /\ lpc = "start"
    /\ max_iterations = 1
    /\ hasWatcher = FALSE
    /\ hasOrchestrator = FALSE
    /\ iteration = 0
    /\ messages = <<>>
    /\ last_response_text = <<>>
    /\ tool_calls = <<>>
    /\ callIdx = 0
    /\ current_plan = <<>>
    /\ returnValue = <<>>
    /\ modelCalls = 0
    /\ finalPrompts = 0
    /\ dispatched = <<>>
    /\ watcherCall = NoWatcherCall

NextBlocks ==
    \/ RunLoopDirect
    \/ IterationStart
    \/ \E r \in BlockReplies : ModelReply(r)
    \/ Dispatch
    \/ LoopEnd
    \/ \E r \in FinalReplies : FinalReply(r)

SpecBlocks == InitBlocks /\ [][NextBlocks]_vars

\* the call a block stands for, as the loop hands it to the tool bridge
BlockCall(kind) ==
    [tool |-> CASE kind = "nope" -> "nope"
                [] kind \in {"code", "codenote"} -> "code_interpreter"
                [] OTHER -> "calculate",
     args |-> CASE kind = "calc" -> << <<"expression", <<Ch("2+2")>> >> >>
                [] kind = "code" ->
                       << <<"code", <<Ch("a = 1"), NL, NL, Ch("print(a)")>> >> >>
                [] kind = "codekey" ->
                       << <<"code", <<Ch("d = {1"), COLON, SP, Ch("2}"), NL, SP, Ch("x"),
                                      COLON, SP, Ch("1")>> >>,
                          <<"expression", <<Ch("2+2")>> >> >>
                [] kind = "codenote" -> << <<"code", <<Ch("a = 1")>> >>,
                                           <<"note", <<Ch("n")>> >> >>
                [] kind = "div" -> << <<"expression", <<Ch("1/0")>> >> >>
                [] kind = "nope" -> << <<"expression", <<Ch("2+2")>> >> >>
                [] kind = "badkw" -> << <<"expression", <<Ch("2+2")>> >>,
                                        <<"verbose", <<Ch("yes")>> >> >>
                [] OTHER -> << <<"tool_name", <<Ch("x")>> >> >>]

WellFormed(kind) == kind \notin {"unclosed", "notool"}

RECURSIVE ExpectedCalls(_)
ExpectedCalls(blocks) ==
    IF blocks = <<>> THEN <<>>
    ELSE (IF WellFormed(Head(blocks)) THEN <<BlockCall(Head(blocks))>> ELSE <<>>)
             \o ExpectedCalls(Tail(blocks))

\* the reply is RenderBlocks(b) for some b of BlockSeqs, and that b: every
\* block starts with the same thought, which occurs nowhere else
IsBlockReply(text) ==
    LET parts == split_on(text, Ch("thought"))
    IN  /\ Head(parts) = <<>>
        /\ Len(parts) - 1 \in 1..MaxBlocks
        /\ \A i \in 2..Len(parts) :
               \E kind \in BlockKinds : RenderBlock(kind) = <<Ch("thought")>> \o parts[i]

BlockKindsOf(text) ==
    LET parts == Tail(split_on(text, Ch("thought")))
    IN  [i \in 1..Len(parts) |->
            CHOOSE kind \in BlockKinds : RenderBlock(kind) = <<Ch("thought")>> \o parts[i]]

\* the call that is being dispatched fails: every shape but "calc" and "code"
FailingCall(call) ==
    call \notin {BlockCall("calc"), BlockCall("code")}

\* a [TOOL_RESULT] message of a failed call: no output, an error
IsFailureMessage(m, call) ==
    /\ m.role = "user"
    /\ Len(m.content) >= 2
    /\ m.content[1] = ToolResultHead(call.tool)
    /\ m.content[2] = Ch("\nerror: ")

\* C14: every parsed tool call that fails (unregistered tool, arguments the
\* tool does not accept, any key taken from the block, an exception inside
\* the tool) gets a [TOOL_RESULT] message with its error appended to the
\* conversation, and the loop goes on: no tool or argument error leaves the
\* tool loop.
C14_Step ==
    lpc = "dispatch" /\ FailingCall(tool_calls[callIdx])
        => /\ lpc' # "raised"
           /\ messages' # messages
           /\ IsFailureMessage(messages'[Len(messages')], tool_calls[callIdx])

C14_ToolErrorsStayInLoop == [][C14_Step]_vars

\* C15: a [TOOL_CALL] segment that is never closed or has no tool key
\* contributes no call and no error, the well-formed blocks of the same
\* reply are parsed in document order, and a reply with malformed blocks
\* only ends the loop as a reply without calls: nothing is dispatched, no
\* final prompt is sent, the reply is returned.
C15_Parsed ==
    IsBlockReply(last_response_text)
        => LET b == BlockKindsOf(last_response_text)
           IN  /\ tool_calls = ExpectedCalls(b)
               /\ ExpectedCalls(b) = <<>>
                      => /\ lpc \in {"break", "returned"}
                         /\ dispatched = <<>>
                         /\ finalPrompts = 0
                         /\ lpc = "returned" => returnValue = last_response_text

C15_ParseStep ==
    lpc = "await_model" => lpc' \in {"break", "dispatch"}

C15_MalformedBlocksSkipped == []C15_Parsed /\ [][C15_ParseStep]_vars

\* a reply of a malformed block, a well-formed one and a malformed one was
\* parsed into its one call, and a reply of malformed blocks only was
\* returned
C15_WitnessMixed ==
    /\ last_response_text = RenderBlocks(<<"unclosed", "nope", "notool">>)
    /\ lpc = "dispatch"
    /\ Len(tool_calls) = 1

C15_Witness ==
    /\ last_response_text = RenderBlocks(<<"notool", "unclosed">>)
    /\ lpc = "returned"
    /\ returnValue = last_response_text

(***************************************************************************)
(* Exceptions of the stage agents in FullPipelineRunner.run (SpecRun).     *)
(***************************************************************************)
Stage2BAwaited == rpc = [stage |-> "stage2_selection", phase |-> "await"]

\* the runner waits between two attempts of Stage 2B
Stage2BSleeping == rpc = [stage |-> "stage2_selection", phase |-> "sleep"]

\* the calls of the Stage 2B agent: one more than the HTTP errors counted
\* while a call is awaited, as many while the runner waits for the next
C16_AtMostThree ==
    /\ Count(invoked, "stage2_selection") <= stage2_selection_retry_attempts
    /\ Stage2BAwaited => Count(invoked, "stage2_selection") = attempts + 1
    /\ Stage2BSleeping => /\ Count(invoked, "stage2_selection") = attempts
                          /\ attempts < stage2_selection_retry_attempts
    /\ rpc.phase = "sleep" => rpc.stage = "stage2_selection"

\* after the wait the agent is called again, and nothing else happens; a
\* wait that is cancelled leaves run without another call
C16_AfterSleep ==
    Stage2BSleeping =>
        /\ \/ /\ rpc' = [rpc EXCEPT !.phase = "await"]
              /\ invoked' = Append(invoked, "stage2_selection")
           \/ /\ rpc' = [rpc EXCEPT !.phase = "cancelled"]
              /\ invoked' = invoked
        /\ attempts' = attempts
        /\ outputs' = outputs
        /\ doc' = doc

\* what can follow a call of the Stage 2B agent: its text is returned and
\* registered at once and run goes on with Stage 2C; or, after an HTTP
\* error that was not the third, the runner waits and then calls it again;
\* or an exception leaves run, the third HTTP error or an exception that is
\* no HTTP error (the cancellation of the task among them)
C16_AfterCall ==
    Stage2BAwaited =>
        \/ /\ rpc' = [stage |-> "stage2_upgrade", phase |-> "call"]
           /\ invoked' = invoked
           /\ attempts' = attempts
           /\ outputs' # outputs
           /\ outputs'[Len(outputs')].stage = "stage2_selection"
           /\ "stage2_selection" \in registered'
        \/ /\ rpc' = [rpc EXCEPT !.phase = "sleep"]
           /\ invoked' = invoked
           /\ attempts' = attempts + 1
           /\ attempts' < stage2_selection_retry_attempts
           /\ outputs' = outputs
        \/ /\ rpc' = [rpc EXCEPT !.phase = "raised"]
           /\ invoked' = invoked
           /\ outputs' = outputs
           /\ \/ attempts' = attempts
              \/ attempts' = attempts + 1 /\ attempts' = stage2_selection_retry_attempts
        \/ /\ rpc' = [rpc EXCEPT !.phase = "cancelled"]
           /\ invoked' = invoked
           /\ outputs' = outputs
           /\ attempts' = attempts

\* C16: Stage 2B is retried only on HTTP errors and is bounded: its agent
\* is invoked at most 3 times per run, the text of the first successful
\* attempt is returned at once, the third consecutive HTTP error leaves
\* run, and an exception that is no HTTP error leaves run without a retry.
C16_RetryBounded == []C16_AtMostThree /\ [][C16_AfterCall /\ C16_AfterSleep]_vars

\* the third HTTP error of Stage 2B left run
C16_Witness ==
    /\ rpc = [stage |-> "stage2_selection", phase |-> "raised"]
    /\ attempts = stage2_selection_retry_attempts
    /\ Count(invoked, "stage2_selection") = stage2_selection_retry_attempts
    /\ outputs[Len(outputs)].stage = "stage2_candidate"

\* an exception left run: the one an agent raised, or the
\* asyncio.CancelledError of a cancelled await
RunRaised == rpc.phase \in {"raised", "cancelled"}

StageIndex(stage) == CHOOSE j \in 1..Len(FixedOrder) : FixedOrder[j] = stage

\* the places where run is suspended: the await of a stage's agent, the
\* sleep between two attempts of Stage 2B, and inside the executor the
\* awaits of the model and of revise_plan
Suspended ==
    \/ rpc.phase \in {"await", "sleep"} /\ rpc.stage \in PlainStages
    \/ /\ rpc = [stage |-> "stage4", phase |-> "await"]
       /\ lpc \in {"await_model", "await_watcher", "await_final"}

\* after the exception of a stage: the stages invoked are those up to it,
\* none is in progress, and every earlier stage has its output in its
\* anchor
C17_AfterRaise ==
    RunRaised =>
        /\ invoked # <<>>
        /\ invoked[Len(invoked)] = rpc.stage
        /\ InvokedStages = SubSeq(FixedOrder, 1, StageIndex(rpc.stage))
        /\ inProgress = {}
        /\ \A j \in 1..(StageIndex(rpc.stage) - 1) : ReturnedAndRegistered(FixedOrder[j])

\* no stage but Stage 2B is invoked twice
C17_NoRetry ==
    \A j \in 1..Len(FixedOrder) :
        FixedOrder[j] # "stage2_selection" => Count(invoked, FixedOrder[j]) <= 1

\* the exception of an agent other than the executor leaves run in the
\* step it is raised in, with the document as it was; and nothing follows
\* an exception that left run
C17_Propagates ==
    /\ ~RunRaised
    /\ (rpc.phase \in {"await", "sleep"} /\ rpc.stage \in PlainStages /\ RunRaised')
           => /\ rpc'.stage = rpc.stage
              /\ doc' = doc
              /\ invoked' = invoked
              /\ outputs' = outputs
    /\ (rpc.phase = "await" /\ lpc = "raised") => rpc' = [rpc EXCEPT !.phase = "raised"]

\* a cancellation is raised only where run is suspended, and it is the
\* exception that leaves run: the executor takes no step after it (the
\* handler around revise_plan does not swallow it), no agent is invoked and
\* the document stays as it was
C17_CancelPropagates ==
    /\ (lpc' = "cancelled" /\ lpc # "cancelled")
           => Suspended /\ doc' = doc /\ invoked' = invoked /\ dispatched' = dispatched
    /\ watcherCall'.outcome = "cancelled" => lpc' = "cancelled"
    /\ (rpc'.phase = "cancelled") => Suspended \/ lpc = "cancelled"
    /\ lpc = "cancelled"
           => /\ rpc' = [rpc EXCEPT !.phase = "cancelled"]
              /\ UNCHANGED <<doc, invoked, outputs, registered, loopVars>>

\* C17: when the agent of a stage other than Stage 2B raises, or the run is
\* cancelled at a suspension point, the runner does not retry: the exception
\* leaves run, no later stage's agent is invoked, and every anchor written
\* by an earlier stage keeps its content.
C17_ExceptionEndsRun ==
    /\ [](C17_AfterRaise /\ C17_NoRetry)
    /\ [][C17_Propagates /\ C17_CancelPropagates]_vars

\* the run was cancelled while the executor of Stage 4 waited for
\* revise_plan after its second tool call: the cancellation left the loop and
\* run, after Stage 2B had been called again and the five stages before
\* Stage 4 had written their anchors
C17_Witness ==
    /\ rpc = [stage |-> "stage4", phase |-> "cancelled"]
    /\ lpc = "cancelled"
    /\ watcherCall.outcome = "cancelled"
    /\ watcherCall.call = 2
    /\ Count(invoked, "stage2_selection") = 2
    /\ {"stage1", "stage2_candidate", "stage2_selection", "stage2_upgrade", "stage3"}
           \subseteq registered

\* Stage 3 raised after the four stages before it had written their anchors
C17_StageRaised ==
    /\ rpc = [stage |-> "stage3", phase |-> "raised"]
    /\ {"stage1", "stage2_candidate", "stage2_selection", "stage2_upgrade"} \subseteq registered
    /\ Count(invoked, "stage3") = 1

\* the run was cancelled in the sleep after the first HTTP error of Stage 2B
C17_SleepCancelled ==
    /\ rpc = [stage |-> "stage2_selection", phase |-> "cancelled"]
    /\ attempts = 1
    /\ Count(invoked, "stage2_selection") = 1
    /\ {"stage1", "stage2_candidate"} \subseteq registered

(***************************************************************************)
(* Strategy upgrade agent                                                  *)
(* (stage2_capability_upgrade_agent/stage2_capability_upgrade_agent.py):   *)
(* the decision headers of a reply, the patch, the library.  Tokens of     *)
(* these texts:                                                            *)
(*   [k |-> "W", v |-> w, n |-> i]  a word of letters, digits and hyphens: *)
(*                                  w, followed by the number i when i > 0 *)
(*                                  (a strategy id is a letter and a       *)
(*                                  number)                                *)
(*   [k |-> "COMMA"]                ","                                    *)
(*   [k |-> "KEY", v |-> name]      name followed by ":"                   *)
(*   [k |-> "ACT", v |-> a]         an action word with an underscore      *)
(*   [k |-> "H3", v |-> t]          a heading "### t"                      *)
(*   [k |-> "H4", v |-> t]          the head of a heading "#### t"         *)
(*   [k |-> "ID", v |-> l, n |-> i] "(li)", a strategy id in parentheses   *)
(*   [k |-> "STATUS", v |-> s]      "AUTO_APPLY_STATUS: s"                 *)
(***************************************************************************)
Word(w) == [k |-> "W", v |-> w, n |-> 0]
IdWord(letter, num) == [k |-> "W", v |-> letter, n |-> num]
COMMA == [k |-> "COMMA", v |-> ",", n |-> 0]
Key(name) == [k |-> "KEY", v |-> name, n |-> 0]
Act(a) == [k |-> "ACT", v |-> a, n |-> 0]
H3(t) == [k |-> "H3", v |-> t, n |-> 0]
H4(t) == [k |-> "H4", v |-> t, n |-> 0]
Id(letter, num) == [k |-> "ID", v |-> letter, n |-> num]
Status(s) == [k |-> "STATUS", v |-> s, n |-> 0]

\* self._max_new_per_category and self._min_reference_ids (defaults)
max_new_per_category == 1
min_reference_ids == 2
\* self._required_justifications
required_justifications == <<"coverage_gap", "reuse_failure", "new_value">>

\* `^` under re.MULTILINE
StartsLine(text, i) == i = 1 \/ text[i - 1] = NL

\* the end of the line position i is on
LineEnd(text, i) ==
    LET nls == {j \in i..Len(text) : text[j] = NL}
    IN  IF nls = {} THEN Len(text) ELSE SetMin(nls) - 1

\* `\s*`, greedy: the first position from i on that holds no whitespace
skip_ws(text, i) ==
    LET rest == {j \in i..Len(text) : ~IsWS(text[j])}
    IN  IF rest = {} THEN Len(text) + 1 ELSE SetMin(rest)

\* str.upper() on the words of the replies modelled here
upper(w) == IF w = "apply" THEN "APPLY" ELSE w

\* the positions `^name:` matches at
keys_at(text, name) == {i \in 1..Len(text) : text[i] = Key(name) /\ StartsLine(text, i)}

\* `\w+` (and `[a-z_]+`, `[A-Z0-9\-]+` on the values modelled here) at
\* position j: the word there, <<>> when the position holds none
word_at(text, j) ==
    IF j <= Len(text) /\ text[j].k \in {"W", "ACT", "KEY"}
    THEN <<upper(text[j].v), text[j].n>>
    ELSE <<>>

\* re.search of `^name:\s*(?P<value>word)`: the value of the first match,
\* <<>> when there is none
header_value(text, name) ==
    LET hits == {i \in keys_at(text, name) : word_at(text, skip_ws(text, i + 1)) # <<>>}
    IN  IF hits = {} THEN <<>> ELSE word_at(text, skip_ws(text, SetMin(hits) + 1))

\* the part of a token the class [A-Z0-9,\-\s] (IGNORECASE) matches from its
\* start: all of a word, a comma or whitespace; of a key or an action the
\* letters before the first "_" or ":"; nothing of the other tokens
class_all(t) == t.k \in {"W", "COMMA", "WS"}
class_head(t) ==
    CASE t.k = "KEY" ->
             (CASE t.v = "TARGET_ID" -> <<Word("TARGET")>>
                [] t.v = "REFERENCE_IDS" -> <<Word("REFERENCE")>>
                [] t.v = "coverage_gap" -> <<Word("coverage")>>
                [] t.v = "reuse_failure" -> <<Word("reuse")>>
                [] t.v = "new_value" -> <<Word("new")>>
                [] OTHER -> <<Word(t.v)>>)
      [] t.k = "ACT" -> IF t.v = "create_new" THEN <<Word("create")>> ELSE <<Word("enhance")>>
      [] t.k = "STATUS" -> <<Word("AUTO")>>
      [] OTHER -> <<>>

\* the run of the class from position i on: it goes on over line ends
class_run(text, i) ==
    LET stops == {j \in i..Len(text) : ~class_all(text[j])}
        e == IF stops = {} THEN Len(text) + 1 ELSE SetMin(stops)
    IN  SubSeq(text, i, e - 1) \o (IF e <= Len(text) THEN class_head(text[e]) ELSE <<>>)

\* reference_match.group("value").split(","), the items stripped, the empty
\* ones dropped
reference_items(value) ==
    LET items == split_on(value, COMMA)
        stripped == [i \in 1..Len(items) |-> strip(items[i])]
    IN  SelectSeq(stripped, LAMBDA item : item # <<>>)

\* _REFERENCE_PATTERN.search and the list built from it
reference_ids(text) ==
    LET hits == {i \in keys_at(text, "REFERENCE_IDS") : class_run(text, i + 1) # <<>>}
    IN  IF hits = {} THEN <<>> ELSE reference_items(class_run(text, SetMin(hits) + 1))

\* _JUSTIFICATION_ENTRY.finditer from position i on, acc the dict so far
\* (TRUE: the key has a value that is not blank).  `\s*:\s*` runs over line
\* ends, so the value of a key left empty is the next line that is not
\* blank; the scan goes on after the value.
RECURSIVE justification_scan(_, _, _)
justification_scan(text, i, acc) ==
    IF i > Len(text) THEN acc
    ELSE IF text[i].k = "KEY" /\ text[i].v \in DOMAIN acc /\ StartsLine(text, i)
         THEN LET j == skip_ws(text, i + 1)
              IN  IF j <= Len(text)
                  THEN justification_scan(text, LineEnd(text, j) + 1,
                                          [acc EXCEPT ![text[i].v] = TRUE])
                  ELSE IF \E m \in (i + 1)..Len(text) : text[m] # NL
                       THEN [acc EXCEPT ![text[i].v] = FALSE]
                       ELSE acc
         ELSE justification_scan(text, i + 1, acc)

justification(text) ==
    justification_scan(text, 1,
        [key \in {required_justifications[i] : i \in 1..Len(required_justifications)}
            |-> FALSE])

\* _parse_decision_metadata; <<>> is a key that is not set (category and
\* reason, which no decision reads, are left out)
_parse_decision_metadata(text) ==
    [decision |-> header_value(text, "DECISION"),
     action |-> header_value(text, "ACTION"),
     target_id |-> header_value(text, "TARGET_ID"),
     reference_ids |-> reference_ids(text),
     justification |-> justification(text)]

\* _parse_patch_metadata: primary_id, the id that ends the first heading
\* line `#### ... (ID)`; <<>> is None
primary_id(patch) ==
    LET ends(i) == {m \in (i + 1)..LineEnd(patch, i) :
                        /\ patch[m].k = "ID"
                        /\ \A q \in (m + 1)..LineEnd(patch, i) : IsWS(patch[q])}
        heads == {i \in 1..Len(patch) :
                      patch[i].k = "H4" /\ StartsLine(patch, i) /\ ends(i) # {}}
    IN  IF heads = {} THEN <<>>
        ELSE LET m == SetMax(ends(SetMin(heads))) IN <<patch[m].v, patch[m].n>>

\* _read_existing_strategy_ids: every id in parentheses in the library file
_read_existing_strategy_ids(library) ==
    {<<library[i].v, library[i].n>> : i \in {m \in 1..Len(library) : library[m].k = "ID"}}

\* the text of an id, of an action
id_text(id) == IdWord(id[1], id[2])

\* `self._session_new_counts[category_letter] >= self._max_new_per_category`
quota_reached(count, max) == count >= max

\* _should_apply_patch: whether to apply, the reason, and
\* metadata["new_category"] ("" when it is not set)
_should_apply_patch(metadata, patch, library, _session_new_counts) ==
    LET action == IF metadata.action = <<>> THEN "" ELSE metadata.action[1]
        missing == {i \in 1..Len(required_justifications) :
                        ~metadata.justification[required_justifications[i]]}
        existing_ids == _read_existing_strategy_ids(library)
        new_id == primary_id(patch)
        target_id == metadata.target_id
        no(reason) == [apply |-> FALSE, reason |-> reason, new_category |-> ""]
    IN  IF action \notin {"create_new", "enhance_existing"}
        THEN no(<<Ch("unsupported action: "),
                  Ch(IF action = "" THEN "missing" ELSE action)>>)
        ELSE IF missing # {}
        THEN no(<<Ch("missing justification for "),
                  Ch(required_justifications[SetMin(missing)])>>)
        ELSE IF Len(metadata.reference_ids) < min_reference_ids
        THEN no(<<Ch("insufficient reference_ids to prove novelty")>>)
        ELSE IF action = "create_new"
        THEN IF new_id = <<>>
             THEN no(<<Ch("unable to locate new strategy id in patch")>>)
             ELSE IF new_id \in existing_ids
             THEN no(<<Ch("strategy id "), id_text(new_id), Ch(" already exists")>>)
             ELSE IF quota_reached(_session_new_counts[new_id[1]], max_new_per_category)
             THEN no(<<Ch("category "), Ch(new_id[1]), Ch(" reached new strategy quota")>>)
             ELSE [apply |-> TRUE,
                   reason |-> <<Ch("accepted new strategy "), id_text(new_id)>>,
                   new_category |-> new_id[1]]
        ELSE IF target_id = <<>>
        THEN no(<<Ch("missing target_id for enhancement action")>>)
        ELSE IF target_id \notin existing_ids
        THEN no(<<Ch("target strategy "), id_text(target_id), Ch(" not found")>>)
        ELSE [apply |-> TRUE,
              reason |-> <<Ch("enhanced existing strategy "), id_text(target_id)>>,
              new_category |-> target_id[1]]

\* CapabilityUpgradeAgent.evaluate_text leaves the markdown body of the reply
\* in last_patch_markdown: the text after the header prefix, which the first
\* blank line ends; <<>> is None
extract_patch(text) ==
    LET blanks == {i \in 1..(Len(text) - 1) : text[i] = NL /\ text[i + 1] = NL}
    IN  IF blanks = {} THEN <<>> ELSE strip(SubSeq(text, SetMin(blanks) + 2, Len(text)))

\* CapabilityUpgradeAgent.apply_patch: the body is appended to the library
\* file
apply_patch(library, patch) == rstrip(library) \o <<NL, NL>> \o patch \o <<NL>>

STAGE2C_MARKER == "STAGE2C_ANALYSIS"
STAGE2C_HEADER == "## Stage 2-C: Capability Upgrade Evaluation"

\* last_patch_markdown after the call: a patch that is not applied is dropped
patch_after(applied, patch_markdown) == IF applied THEN patch_markdown ELSE <<>>

\* CapabilityUpgradeAgent.evaluate_text, called as super().evaluate_text: the
\* patch of the reply is kept in last_patch_markdown and, with
\* auto_apply_patch, appended to the library file at once
super_evaluate_text(u, response_text) ==
    LET patch == extract_patch(response_text)
        writes == u.auto_apply_patch /\ patch # <<>>
    IN  [u EXCEPT !.library = IF writes THEN apply_patch(@, patch) ELSE @,
                  !.last_patch_markdown = patch,
                  !.last_applied_path = IF writes THEN "library_file" ELSE ""]

\* Stage2CapabilityUpgradeAgent.evaluate_text on the agent u (its fields and
\* the library file), the model replying response_text: the call of the
\* base class, then the policy on the library as the base class left it
evaluate_text(u, response_text) ==
    LET base == super_evaluate_text(u, response_text)
        patch_markdown == base.last_patch_markdown
        decision_info == _parse_decision_metadata(response_text)
        decision == decision_info.decision
        checked == decision = <<"APPLY", 0>> /\ patch_markdown # <<>>
        verdict == _should_apply_patch(decision_info, patch_markdown, base.library,
                                       u._session_new_counts)
        applied == checked /\ verdict.apply
        apply_reason ==
            IF checked THEN verdict.reason
            ELSE IF decision = <<>> THEN <<Ch("missing decision header")>>
            ELSE IF decision # <<"APPLY", 0>> THEN <<Ch("decision="), Ch(decision[1])>>
            ELSE <<Ch("no patch content detected")>>
        status_line ==
            <<Status(IF applied THEN "applied" ELSE "skipped")>>
                \o (IF apply_reason # <<>> THEN <<Ch(" (")>> \o apply_reason \o <<Ch(")")>>
                    ELSE <<>>)
        has_status == \E i \in 1..Len(response_text) : response_text[i].k = "STATUS"
        creates == applied /\ decision_info.action = <<"create_new", 0>>
    IN  [u EXCEPT
            !.library = IF applied THEN apply_patch(base.library, patch_markdown)
                        ELSE base.library,
            !._session_new_counts =
                IF applied /\ verdict.new_category # ""
                THEN [@ EXCEPT ![verdict.new_category] = @ + 1] ELSE @,
            !.last_patch_markdown = patch_after(applied, patch_markdown),
            !.last_applied_path = IF applied THEN "library_file" ELSE "",
            !.result_text =
                IF has_status THEN response_text
                ELSE rstrip(response_text) \o <<NL, NL>> \o status_line,
            !.reply = response_text,
            !.applied = applied,
            !.apply_reason = apply_reason,
            !.created = IF creates THEN [@ EXCEPT ![primary_id(patch_markdown)[1]] = @ + 1]
                        ELSE @,
            !.evaluations = @ + 1]

(***************************************************************************)
(* One upgrade agent and its library file, evaluate_text called again and  *)
(* again, and the command `apply` of the interactive loop.                 *)
(***************************************************************************)
MaxEvals == 3
\* the `apply` commands of a session
MaxCommands == 1

\* strategy.md: two strategies of category I, one of category A
StrategyLibrary ==
    <<H3("I. info"), NL, H4("a "), Id("I", 1), NL, Word("-"), SP, Word("x"), NL,
      H4("b "), Id("I", 2), NL, H3("A. analysis"), NL, H4("c "), Id("A", 1), NL>>

HeaderLine(name, value) == <<Key(name), SP>> \o value \o <<NL>>
OneRef == <<IdWord("I", 1)>>
TwoRefs == <<IdWord("I", 1), COMMA, SP, IdWord("I", 2)>>
Justified ==
    HeaderLine("coverage_gap", <<Word("gap")>>) \o HeaderLine("reuse_failure", <<Word("fail")>>)
        \o HeaderLine("new_value", <<Word("value")>>)
NewStrategy(letter, num) ==
    <<H3("strategies"), NL, H4("foo "), Id(letter, num), NL, Word("-"), SP, Word("z")>>
Enhancement == <<Word("-"), SP, Word("more")>>

\* the reply of the spec: the headers in their order, a blank line, the body
Reply(decision, action, target, refs, justifications, body) ==
    HeaderLine("DECISION", decision) \o HeaderLine("ACTION", action)
        \o HeaderLine("CATEGORY", <<Word("I")>>)
        \o (IF target # <<>> THEN HeaderLine("TARGET_ID", target) ELSE <<>>)
        \o (IF refs # <<>> THEN HeaderLine("REFERENCE_IDS", refs) ELSE <<>>)
        \o justifications
        \o HeaderLine("REASON", <<Word("because")>>)
        \o (IF body # <<>> THEN <<NL>> \o body ELSE <<>>)

Create(refs, letter, num) ==
    Reply(<<Word("APPLY")>>, <<Act("create_new")>>, <<>>, refs, Justified,
          NewStrategy(letter, num))
Enhance(target) ==
    Reply(<<Word("APPLY")>>, <<Act("enhance_existing")>>, target, TwoRefs, Justified,
          Enhancement)

\* a reply whose reference header, with one id, is the last header, before
\* a body that starts with a sentence
ReplyRefsLast ==
    HeaderLine("DECISION", <<Word("APPLY")>>) \o HeaderLine("ACTION", <<Act("create_new")>>)
        \o Justified \o HeaderLine("REFERENCE_IDS", OneRef)
        \o <<NL, Word("New"), SP, Word("strategy"), COMMA, SP, Word("merging"), NL>>
        \o NewStrategy("I", 4)

\* a reply whose new_value is left empty and is the last header
ReplyEmptyValue ==
    HeaderLine("DECISION", <<Word("APPLY")>>) \o HeaderLine("ACTION", <<Act("create_new")>>)
        \o HeaderLine("REFERENCE_IDS", TwoRefs)
        \o HeaderLine("coverage_gap", <<Word("gap")>>)
        \o HeaderLine("reuse_failure", <<Word("fail")>>)
        \o <<Key("new_value"), NL, NL>> \o NewStrategy("A", 2)

\* a reply without header lines: a preface, a blank line and the patch body
ReplyPreface ==
    <<Ch("[Reasoning]"), NL, Word("fusion"), SP, Word("needed"), NL, NL>>
        \o NewStrategy("A", 3)

UpgradeReplies ==
    {Create(TwoRefs, "I", 3), Create(TwoRefs, "I", 2), Create(TwoRefs, "I", 4),
     Create(OneRef, "I", 4), Create(<<>>, "I", 3), Create(TwoRefs, "A", 2),
     Enhance(<<IdWord("I", 1)>>), Enhance(<<IdWord("I", 9)>>), Enhance(<<>>),
     Reply(<<Word("REJECT")>>, <<Act("create_new")>>, <<>>, TwoRefs, Justified,
           NewStrategy("I", 3)),
     Reply(<<Word("apply")>>, <<Act("create_new")>>, <<>>, TwoRefs, Justified,
           NewStrategy("A", 3)),
     Reply(<<Word("APPLY")>>, <<Act("create_new")>>, <<>>, TwoRefs, Justified, <<>>),
     Reply(<<Word("APPLY")>>, <<Word("merge")>>, <<>>, TwoRefs, Justified,
           NewStrategy("I", 3)),
     Reply(<<Word("APPLY")>>, <<Act("create_new")>>, <<>>, TwoRefs,
           HeaderLine("coverage_gap", <<Word("gap")>>), NewStrategy("I", 3)),
     Reply(<<Word("APPLY")>>, <<Act("create_new")>>, <<>>, TwoRefs, Justified, Enhancement),
     Create(TwoRefs, "I", 3) \o <<NL, Status("skipped")>>,
     ReplyRefsLast, ReplyEmptyValue, ReplyPreface,
     <<Word("no"), SP, Word("upgrade"), SP, Word("needed")>>}

InitUpgrade ==
    /\ doc = RunDocFull
    /\ StoreIdle
    /\ CtxIdle
    /\ run_objective = <<>>
    /\ RunIdle
    /\ LoopIdle
    /\ AuxIdle
    /\ \E path \in BOOLEAN, auto \in BOOLEAN :
           upgrade = [NoUpgradeAgent EXCEPT !.library = StrategyLibrary,
                                            !.finish_form_path = path,
                                            !.auto_apply_patch = auto]
    /\ runners = NoRunners

\* one call of evaluate_text, with the write of the output to the form when
\* finish_form_path is given
EvaluateText(response_text) ==
    /\ upgrade.evaluations < MaxEvals
    /\ upgrade' = evaluate_text(upgrade, response_text)
    /\ doc' = IF upgrade.finish_form_path
              THEN update_form_section(doc, STAGE2C_MARKER,
                       evaluate_text(upgrade, response_text).result_text, STAGE2C_HEADER)
              ELSE doc
    /\ UNCHANGED <<runners, storeVars, ctxVars, run_objective, runVars, loopVars, auxVars>>

\* the command `apply` (or `write`) of _interactive_loop: the patch the last
\* call left in last_patch_markdown is appended by apply_patch, with no
\* policy check and no change of the counters; without a patch the command
\* writes nothing
ApplyCommand ==
    /\ upgrade.library # <<>>
    /\ upgrade.commands < MaxCommands
    /\ upgrade' = [upgrade EXCEPT
           !.library = IF upgrade.last_patch_markdown # <<>>
                       THEN apply_patch(@, upgrade.last_patch_markdown) ELSE @,
           !.last_applied_path = IF upgrade.last_patch_markdown # <<>>
                                 THEN "library_file" ELSE @,
           !.commands = @ + 1]
    /\ UNCHANGED <<doc, runners, storeVars, ctxVars, run_objective, runVars, loopVars, auxVars>>

NextUpgrade ==
    \/ \E r \in UpgradeReplies : EvaluateText(r)
    \/ ApplyCommand

SpecUpgrade == InitUpgrade /\ [][NextUpgrade]_vars

(***************************************************************************)
(* The acceptance policy of the strategy upgrade agent (SpecUpgrade).      *)
(***************************************************************************)
\* the ids that head the entries of the text, in order: the lines
\* `#### ... (ID)`
HeadingIds(text) ==
    LET heads == SelectSeq([i \in 1..Len(text) |-> i],
                     LAMBDA i : /\ text[i].k = "H4"
                                /\ StartsLine(text, i)
                                /\ \E m \in (i + 1)..LineEnd(text, i) :
                                       /\ text[m].k = "ID"
                                       /\ \A q \in (m + 1)..LineEnd(text, i) : IsWS(text[q]))
    IN  [j \in 1..Len(heads) |->
            LET i == heads[j]
                m == SetMax({q \in (i + 1)..LineEnd(text, i) : text[q].k = "ID"})
            IN  <<text[m].v, text[m].n>>]

\* the number of entries of the text the id heads
Heads(text, id) == Cardinality({j \in 1..Len(HeadingIds(text)) : HeadingIds(text)[j] = id})

\* the step is a call of evaluate_text
Evaluated == upgrade'.evaluations = upgrade.evaluations + 1

\* the ids the REFERENCE_IDS header lists: the items of its line
ListedReferenceIds(text) ==
    LET hits == keys_at(text, "REFERENCE_IDS")
    IN  IF hits = {} THEN <<>>
        ELSE reference_items(SubSeq(text, SetMin(hits) + 1, LineEnd(text, SetMin(hits))))

\* the justification key has a value on its line
ListedJustification(text, key) ==
    \E i \in keys_at(text, key) : strip(SubSeq(text, i + 1, LineEnd(text, i))) # <<>>

ListedJustifications(text) ==
    \A k \in 1..Len(required_justifications) :
        ListedJustification(text, required_justifications[k])

\* the number of new strategies of the category applied so far is at the quota
AtQuota(u, letter) == u.created[letter] >= max_new_per_category

\* the acceptance conditions of the policy for the reply, on the agent u
\* before the call
AcceptanceHolds(u, text) ==
    LET info == _parse_decision_metadata(text)
        patch == extract_patch(text)
        new_id == primary_id(patch)
        existing == _read_existing_strategy_ids(u.library)
    IN  /\ info.decision = <<"APPLY", 0>>
        /\ patch # <<>>
        /\ info.action \in {<<"create_new", 0>>, <<"enhance_existing", 0>>}
        /\ ListedJustifications(text)
        /\ Len(ListedReferenceIds(text)) >= min_reference_ids
        /\ info.action = <<"create_new", 0>>
               => new_id # <<>> /\ new_id \notin existing /\ ~AtQuota(u, new_id[1])
        /\ info.action = <<"enhance_existing", 0>>
               => info.target_id # <<>> /\ info.target_id \in existing

HasStatus(text, s) == \E i \in 1..Len(text) : text[i] = Status(s)

C18_Step ==
    Evaluated =>
        /\ upgrade'.applied <=> AcceptanceHolds(upgrade, upgrade'.reply)
        /\ upgrade'.applied
               => /\ upgrade'.library
                         = apply_patch(upgrade.library, extract_patch(upgrade'.reply))
                  /\ HasStatus(upgrade'.result_text, "applied")
                  /\ upgrade'.last_applied_path = "library_file"
        /\ ~upgrade'.applied => upgrade'.library = upgrade.library

\* C18: evaluate_text appends the patch body to the library file if and only
\* if all acceptance conditions hold (DECISION is APPLY, a patch body, ACTION
\* create_new or enhance_existing, the three justifications, at least
\* min_reference_ids reference ids, for create_new a primary id absent from
\* the library in a category under max_new_per_category, for
\* enhance_existing a TARGET_ID of the library); then the output carries
\* AUTO_APPLY_STATUS: applied and last_applied_path is the library file.
C18_AppliesIffAccepted == [][C18_Step]_vars

\* the reply asks for a new strategy of a category that is at its quota
CreateAtQuota(u, text) ==
    LET info == _parse_decision_metadata(text)
        new_id == primary_id(extract_patch(text))
    IN  /\ info.action = <<"create_new", 0>>
        /\ new_id # <<>>
        /\ AtQuota(u, new_id[1])

\* the reply passes the checks that come before the quota check
PassesEarlierChecks(u, text) ==
    LET info == _parse_decision_metadata(text)
    IN  /\ info.decision = <<"APPLY", 0>>
        /\ ListedJustifications(text)
        /\ Len(ListedReferenceIds(text)) >= min_reference_ids
        /\ primary_id(extract_patch(text)) \notin _read_existing_strategy_ids(u.library)

QuotaReason(reason) ==
    \E i \in 1..Len(reason) : reason[i] = Ch(" reached new strategy quota")

\* the ids of category letter that head entries of the library and are not
\* ids of the library the session started with
NewIds(library, letter) ==
    {id \in {HeadingIds(library)[j] : j \in 1..Len(HeadingIds(library))} :
        /\ id[1] = letter
        /\ \A j \in 1..Len(HeadingIds(StrategyLibrary)) : HeadingIds(StrategyLibrary)[j] # id}

C19_Quota ==
    \A letter \in Letters :
        /\ upgrade.created[letter] <= max_new_per_category
        /\ upgrade.library # <<>>
               => Cardinality(NewIds(upgrade.library, letter)) <= max_new_per_category

C19_Step ==
    (Evaluated /\ CreateAtQuota(upgrade, upgrade'.reply))
        => ~upgrade'.applied /\ QuotaReason(upgrade'.apply_reason)

\* C19: for one agent instance and every category letter, the new
\* strategies of that letter applied to the library never exceed
\* max_new_per_category, and every further create_new in a category at
\* quota is rejected with a reason containing "reached new strategy quota".
C19_QuotaEnforced == []C19_Quota /\ [][C19_Step]_vars

C20_Step ==
    (Evaluated /\ extract_patch(upgrade'.reply) # <<>>
               /\ Len(ListedReferenceIds(upgrade'.reply)) = 1)
        => /\ ~upgrade'.applied
           /\ upgrade'.apply_reason = <<Ch("insufficient reference_ids to prove novelty")>>

\* C20: a library patch whose REFERENCE_IDS header lists only 1 id (with
\* min_reference_ids 2) is rejected, and the reported reason is
\* "insufficient reference_ids to prove novelty".
C20_OneReferenceRejected == [][C20_Step]_vars

\* the call ended with the patch not applied
NotApplied == Evaluated /\ ~upgrade'.applied

C21_Step ==
    NotApplied
        => /\ upgrade'.library = upgrade.library
           /\ upgrade'.last_patch_markdown = <<>>
           /\ upgrade'.last_applied_path = ""

\* C21: whenever evaluate_text ends with the patch not applied (decision
\* missing or not APPLY, no patch body, or a failed policy check such as
\* create_new with an id that is in the library), the library file is as it
\* was before the call, and last_patch_markdown and last_applied_path are
\* both null afterwards.
C21_RejectedLeavesLibrary == [][C21_Step]_vars

\* a status line with one of the two values: applied, or skipped with a
\* reason in parentheses
StatusLineAt(text, i) ==
    /\ text[i].k = "STATUS"
    /\ StartsLine(text, i)
    /\ \/ text[i] = Status("applied")
       \/ /\ text[i] = Status("skipped")
          /\ i + 3 <= Len(text)
          /\ text[i + 1] = Ch(" (")
          /\ text[i + 2] # Ch(")")
          /\ \E j \in (i + 3)..Len(text) :
                 /\ text[j] = Ch(")")
                 /\ \A m \in (i + 1)..j : text[m] # NL

\* C22: the text returned by evaluate_text always contains an
\* AUTO_APPLY_STATUS line whose value is either applied or skipped
\* (<reason>) with a non-empty reason, for every reply of the model.
C22_StatusAlwaysPresent ==
    upgrade.evaluations > 0
        => \E i \in 1..Len(upgrade.result_text) : StatusLineAt(upgrade.result_text, i)

\* the reply proposes a strategy entry whose id is not in the library
ProposesNewEntry(u, text) ==
    LET new_id == primary_id(extract_patch(text))
    IN  /\ _parse_decision_metadata(text).decision \in {<<>>, <<"APPLY", 0>>}
        /\ new_id # <<>>
        /\ new_id \notin _read_existing_strategy_ids(u.library)

\* the reply carries no strategy entry
NoEntry(text) == \A i \in 1..Len(text) : text[i].k # "ID"

C23_Step ==
    Evaluated =>
        /\ (upgrade.auto_apply_patch /\ ProposesNewEntry(upgrade, upgrade'.reply))
               => /\ upgrade'.library
                         = apply_patch(upgrade.library, extract_patch(upgrade'.reply))
                  /\ upgrade'.last_patch_markdown = extract_patch(upgrade'.reply)
                  /\ upgrade'.last_applied_path = "library_file"
        /\ NoEntry(upgrade'.reply)
               => /\ upgrade'.library = upgrade.library
                  /\ upgrade'.last_patch_markdown = <<>>

\* C23: with auto_apply_patch enabled, when the reply of the model proposes
\* a new strategy entry (a line "#### name (ID)" with an id absent from the
\* library, in the test after a [Reasoning] preface only), evaluate_text
\* appends the patch to the
\* library file, and afterwards last_patch_markdown is the patch and
\* last_applied_path the library file; when a later reply on the same agent
\* carries no strategy entry, the library file stays as it is and
\* last_patch_markdown is null.
C23_AppliesEntryOnly == [][C23_Step]_vars

(***************************************************************************)
(* The sections a builder takes from the document (SpecCtx).               *)
(***************************************************************************)
\* the descriptor list of a builder, memory_bridge.py:209-343
BuilderDescriptors(b) ==
    CASE b = "stage1" -> EXTERNAL_SECTION_DESCRIPTORS \o STAGE1_SECTION_DESCRIPTORS
      [] b = "stage2a" -> EXTERNAL_SECTION_DESCRIPTORS \o STAGE1_SECTION_DESCRIPTORS
                              \o STAGE2A_SECTION_DESCRIPTORS
      [] b = "stage2b" -> EXTERNAL_SECTION_DESCRIPTORS \o STAGE1_SECTION_DESCRIPTORS
                              \o STAGE2A_SECTION_DESCRIPTORS \o STAGE2B_SECTION_DESCRIPTORS
      [] b = "stage3" -> EXTERNAL_SECTION_DESCRIPTORS \o STAGE1_SECTION_DESCRIPTORS
                             \o STAGE2A_SECTION_DESCRIPTORS \o STAGE2B_SECTION_DESCRIPTORS
                             \o STAGE3_SECTION_DESCRIPTORS
      [] b = "stage4" -> EXTERNAL_SECTION_DESCRIPTORS \o STAGE1_SECTION_DESCRIPTORS
                             \o STAGE2A_SECTION_DESCRIPTORS \o STAGE2B_SECTION_DESCRIPTORS
                             \o STAGE3_SECTION_DESCRIPTORS \o STAGE4_SECTION_DESCRIPTORS
                             \o WATCHER_SECTION_DESCRIPTORS
      [] b = "watcher_audit" -> WATCHER_AUDIT_DESCRIPTORS
      [] OTHER -> <<>>

\* the anchor is in the document with content that is not empty, as the
\* anchor store reads it
PresentNonEmpty(bytes, a) ==
    read_form_section(bytes, a).found /\ read_form_section(bytes, a).text # <<>>

\* the sections of the descriptors whose anchors are present with non-empty
\* content, in the order of the descriptors
ExpectedSections(bytes, descriptors) ==
    LET kept == SelectSeq(descriptors, LAMBDA d : PresentNonEmpty(bytes, d[1]))
    IN  [i \in 1..Len(kept) |->
            [header |-> kept[i][2], content |-> read_form_section(bytes, kept[i][1]).text,
             source |-> kept[i][3]]]

\* the sections of a context that come from the document: all but the
\* objective and the optional inputs of the caller
DocumentSections(sections) ==
    SelectSeq(sections, LAMBDA sec : sec.source \notin {"user_input", "environment"})

\* how the document fills an anchor
FillOf(bytes, a) ==
    LET r == read_form_section(bytes, a)
    IN  IF ~r.found THEN "absent"
        ELSE IF r.text = <<>> THEN "empty"
        ELSE IF r.text = DEFAULT_PLACEHOLDER THEN "placeholder"
        ELSE "text"

WatcherAnchors == {WATCHER_AUDIT_DESCRIPTORS[i][1] : i \in 1..Len(WATCHER_AUDIT_DESCRIPTORS)}

\* the document that agrees with bytes on the three anchors of the watcher
\* (and on STAGE2B_ANALYSIS, written with the snapshot) and holds no other
\* anchor; two documents that agree on the three anchors have the same
\* projection
WatcherProjection(bytes) ==
    CtxDocumentOf([a \in CtxAnchorSet |->
                      IF a \in WatcherAnchors \cup {"STAGE2B_ANALYSIS"}
                      THEN FillOf(bytes, a) ELSE "absent"])

\* the objective a context was built with
ObjectiveOf(sections) ==
    IF sections # <<>> /\ sections[1].header = "Objective" THEN sections[1].content
    ELSE <<>>

\* C24: for every stage builder (stage 1, 2a, 2b, 3, 4, watcher audit) and
\* every document, the sections of the built context taken from the document
\* are exactly the anchors of the builder's descriptor list that are present
\* with non-empty content, in the order of the list; the watcher audit
\* context draws only on STAGE1_FAILURE_MODES, STAGE2B_STRATEGY_SNAPSHOT and
\* STAGE3_EXECUTION_PLAN and is the same for two documents that agree on
\* these three anchors.
C24_SectionsFollowDescriptors ==
    /\ builder # ""
           => DocumentSections(ctx) = ExpectedSections(doc, BuilderDescriptors(builder))
    /\ builder = "watcher_audit"
           => /\ \A i \in 1..Len(DocumentSections(ctx)) :
                     SectionAnchors(DocumentSections(ctx)[i]) \subseteq WatcherAnchors
              /\ create_watcher_audit_context(WatcherProjection(doc), ObjectiveOf(ctx)) = ctx

\* the watcher audit context of a document that holds its three anchors, one
\* of them empty, next to filled anchors of every stage
C24_Witness ==
    /\ builder = "watcher_audit"
    /\ FillOf(doc, "STAGE1_FAILURE_MODES") = "text"
    /\ FillOf(doc, "STAGE2B_STRATEGY_SNAPSHOT") = "text"
    /\ FillOf(doc, "STAGE3_EXECUTION_PLAN") = "empty"
    /\ FillOf(doc, "STAGE3_PLAN") = "placeholder"
    /\ FillOf(doc, "LIVE_EXECUTION_PLAN") = "text"
    /\ Len(ctx) = 3
    /\ ctx[2].header = "Common Failure Modes"
    /\ ctx[3].header = "Final Strategy Snapshot"

\* the Stage 4 context of a document whose Stage 3 plan is the placeholder
\* and whose Stage 2-A anchor is absent
C24_WitnessStage4 ==
    /\ builder = "stage4"
    /\ FillOf(doc, "STAGE3_PLAN") = "placeholder"
    /\ FillOf(doc, "STAGE2A_ANALYSIS") = "absent"
    /\ FillOf(doc, "STAGE1_ANALYSIS") = "text"
    /\ FillOf(doc, "LIVE_EXECUTION_PLAN") = "text"
    /\ Len(DocumentSections(ctx)) >= 3

(***************************************************************************)
(* ensure on the anchor file store (SpecStore).                            *)
(***************************************************************************)
\* the names of a list of marker pairs
PairNames(pairs) == {pairs[i][1] : i \in 1..Len(pairs)}

\* a marker of the anchor is somewhere in the text
HasMarker(text, a) == Count(text, START(a)) > 0 \/ Count(text, END(a)) > 0

\* C25: ensure is idempotent: applying ensure(doc, pairs) twice leaves the
\* document exactly as after one application, an anchor whose pair is
\* already present is never changed or duplicated by ensure, and a name that
\* appears twice in pairs is added once.
C25_EnsureIdempotent ==
    lastOp.kind = "ensure" =>
        /\ ensure_markers(doc, lastOp.pairs) = doc
        /\ \A a \in StoreAnchors :
               /\ read_form_section(lastOp.pre, a).found
                      => /\ read_form_section(doc, a) = read_form_section(lastOp.pre, a)
                         /\ Count(doc, START(a)) = Count(lastOp.pre, START(a))
                         /\ Count(doc, END(a)) = Count(lastOp.pre, END(a))
               /\ (a \in PairNames(lastOp.pairs) /\ ~HasMarker(lastOp.pre, a))
                      => /\ Count(doc, START(a)) = 1
                         /\ Count(doc, END(a)) = 1
                         /\ read_form_section(doc, a).found

\* ensure was given the live plan twice on a document that held the Stage 3
\* plan only, and added the live plan block once
C25_Witness ==
    /\ lastOp.kind = "ensure"
    /\ Len(lastOp.pairs) = 2
    /\ lastOp.pairs[1][1] = LIVE_PLAN_MARKER
    /\ lastOp.pairs[2][1] = LIVE_PLAN_MARKER
    /\ read_form_section(lastOp.pre, STAGE3_PLAN).found
    /\ ~HasMarker(lastOp.pre, LIVE_PLAN_MARKER)
    /\ doc # lastOp.pre
    /\ Count(doc, START(LIVE_PLAN_MARKER)) = 1
    /\ read_form_section(doc, LIVE_PLAN_MARKER).text = DEFAULT_PLACEHOLDER


(***************************************************************************)
(* finish_form_utils on a path at which the form may be missing.           *)
(***************************************************************************)
\* the call goes on to read and write whatever is at the path
update_raises_never(exists) == FALSE
\* update_form_section: "if not target.exists(): raise FileNotFoundError"
update_raises(exists) == ~exists

\* read_form_section: "if not target.exists(): return None", then the search
read_path(exists, bytes, marker_name) ==
    IF ~exists THEN [found |-> FALSE, text |-> <<>>]
    ELSE read_form_section(bytes, marker_name)

\* documents that carry one marker of an anchor only, or the two out of order
HalfMarked ==
    { <<Ch("title"), NL, START(STAGE3_PLAN), NL, Ch("x"), NL>>,
      <<Ch("x"), NL, END(STAGE3_PLAN), NL>>,
      <<END(LIVE_PLAN_MARKER), NL, Ch("x"), START(LIVE_PLAN_MARKER), NL>> }

PathDocuments == StoreTemplates \cup HalfMarked

PathContents == { <<>>, <<Ch("x")>>, <<NL, Ch("y"), SP>> }

InitPath ==
    /\ path_exists \in BOOLEAN
    /\ doc \in (IF path_exists THEN PathDocuments ELSE {<<>>})
    /\ pathCall = NoPathCall
    /\ StoreIdle
    /\ CtxIdle
    /\ run_objective = <<>>
    /\ UpgradeIdle
    /\ ToolsIdle
    /\ workflow = NoWorkflow
    /\ RunIdle
    /\ LoopIdle

PathFrame ==
    UNCHANGED <<storeVars, ctxVars, run_objective, upgradeVars, toolVars, workflow,
                runVars, loopVars>>

\* update_form_section(path, marker_name=a, content=x, header=None) on a path
\* that may hold no file
PathUpdate(a, x) ==
    /\ IF update_raises(path_exists)
       THEN /\ pathCall' = [op |-> "update", a |-> a, existed |-> path_exists,
                            pre |-> doc, raised |-> "FileNotFoundError",
                            found |-> FALSE, text |-> <<>>]
            /\ UNCHANGED <<doc, path_exists>>
       ELSE LET new == update_form_section(doc, a, x, NoHeader)
            IN  /\ Len(new) <= MaxDocLen
                /\ doc' = new
                /\ path_exists' = TRUE
                /\ pathCall' = [op |-> "update", a |-> a, existed |-> path_exists,
                                pre |-> doc, raised |-> "", found |-> FALSE,
                                text |-> <<>>]
    /\ PathFrame

\* read_form_section(path, marker_name=a)
PathRead(a) ==
    LET r == read_path(path_exists, doc, a)
    IN  /\ pathCall' = [op |-> "read", a |-> a, existed |-> path_exists, pre |-> doc,
                        raised |-> "", found |-> r.found, text |-> r.text]
        /\ UNCHANGED <<doc, path_exists>>
        /\ PathFrame

\* ensure_markers(path, marker_pairs=pairs): returns at once when no file exists
PathEnsure(pairs) ==
    LET new == IF path_exists THEN ensure_markers(doc, pairs) ELSE doc
    IN  /\ Len(new) <= MaxDocLen
        /\ doc' = new
        /\ pathCall' = [op |-> "ensure", a |-> "", existed |-> path_exists, pre |-> doc,
                        raised |-> "", found |-> FALSE, text |-> <<>>]
        /\ UNCHANGED path_exists
        /\ PathFrame

NextPath ==
    \/ \E a \in StoreAnchors, x \in PathContents : PathUpdate(a, x)
    \/ \E a \in StoreAnchors : PathRead(a)
    \/ \E pairs \in EnsurePairLists : PathEnsure(pairs)

SpecPath == InitPath /\ [][NextPath]_vars

\* the document lacks the START marker or the END marker of the anchor
LacksMarker(text, a) == Count(text, START(a)) = 0 \/ Count(text, END(a)) = 0

\* C26: update on a path where no document exists raises the
\* missing-document error and creates or changes no file; read on a missing
\* document, or on a document that lacks either marker of the anchor,
\* returns null without raising.
C26_MissingDocument ==
    /\ (pathCall.op = "update" /\ ~pathCall.existed)
           => /\ pathCall.raised = "FileNotFoundError"
              /\ ~path_exists
              /\ doc = pathCall.pre
    /\ (pathCall.op = "read"
            /\ (~pathCall.existed \/ LacksMarker(pathCall.pre, pathCall.a)))
           => /\ pathCall.raised = ""
              /\ ~pathCall.found
              /\ doc = pathCall.pre
              /\ path_exists = pathCall.existed

\* an update was made on a missing path
C26_Witness ==
    pathCall.op = "update" /\ ~pathCall.existed

\* a read was made on an existing document that holds one marker of the
\* anchor only
C26_WitnessHalf ==
    /\ pathCall.op = "read"
    /\ pathCall.existed
    /\ Count(pathCall.pre, START(pathCall.a)) = 1
    /\ Count(pathCall.pre, END(pathCall.a)) = 0


(***************************************************************************)
(* ToolsBridge: the code interpreter.  A snippet is one of the shapes of    *)
(* Snippets; a namespace maps each name to its value, Unbound for a name    *)
(* that is not in it.                                                       *)
(***************************************************************************)
BridgeIds == {1, 2}
Names == {"x", "result"}
Values == {"1", "2"}
\* the value of a name that is bound in no namespace
Unbound == "NameError"

EmptyNamespace == [n \in Names |-> Unbound]

\* ToolsBridge.__init__
NewBridge == [globals |-> EmptyNamespace, tavily |-> "uninitialized"]

\* x = v | print(x) | x = v, then raise | __builtins__["x"] = v | blank
Snippets ==
    [op : {"assign", "assign_raise"}, name : Names, value : Values]
    \cup [op : {"builtin"}, name : {"x"}, value : Values]
    \cup [op : {"read"}, name : Names, value : {Unbound}]
    \cup [op : {"empty"}, name : {""}, value : {Unbound}]

\* the namespace handed to exec: the globals of the bridge, kept over calls
exec_globals(bridge) == bridge.globals

\* name resolution in the executed code: the globals, then the builtins
lookup(globals, names, name) ==
    IF globals[name] # Unbound THEN globals[name] ELSE names[name]

\* exec(clean_code, globals): the namespace, the builtins, what was printed
\* and whether an exception left the snippet
exec(snippet, globals, names) ==
    CASE snippet.op = "assign" ->
            [globals |-> [globals EXCEPT ![snippet.name] = snippet.value],
             builtins |-> names, stdout |-> Unbound, raised |-> ""]
      [] snippet.op = "assign_raise" ->
            [globals |-> [globals EXCEPT ![snippet.name] = snippet.value],
             builtins |-> names, stdout |-> Unbound, raised |-> "ValueError"]
      [] snippet.op = "builtin" ->
            [globals |-> globals,
             builtins |-> [names EXCEPT ![snippet.name] = snippet.value],
             stdout |-> Unbound, raised |-> ""]
      [] OTHER ->
            [globals |-> globals, builtins |-> names,
             stdout |-> lookup(globals, names, snippet.name),
             raised |-> IF lookup(globals, names, snippet.name) = Unbound
                        THEN "NameError" ELSE ""]

\* the scan for "_result_", "result", "answer" in the globals
result_value(globals) == globals["result"]

\* code_interpreter(bridge, code): the ToolResult
code_interpreter(snippet, run) ==
    IF snippet.op = "empty"
    THEN [success |-> FALSE, stdout |-> Unbound, return |-> Unbound,
          error |-> "code_interpreter received empty code snippet"]
    ELSE IF run.raised # ""
    THEN [success |-> FALSE, stdout |-> Unbound, return |-> Unbound,
          error |-> run.raised]
    ELSE [success |-> TRUE, stdout |-> run.stdout,
          return |-> result_value(run.globals), error |-> ""]

InitInterp ==
    /\ bridges = [b \in BridgeIds |-> NewBridge]
    /\ builtins = EmptyNamespace
    /\ tool_result = NoToolResult
    /\ doc = <<>>
    /\ StoreIdle
    /\ CtxIdle
    /\ run_objective = <<>>
    /\ UpgradeIdle
    /\ PathIdle
    /\ workflow = NoWorkflow
    /\ RunIdle
    /\ LoopIdle

ToolFrame ==
    UNCHANGED <<doc, storeVars, ctxVars, run_objective, upgradeVars, pathVars, workflow,
                runVars, loopVars>>

\* call_tool("code_interpreter", code=snippet) on bridge b
CodeInterpreter(b, snippet) ==
    LET run == IF snippet.op = "empty"
               THEN [globals |-> bridges[b].globals, builtins |-> builtins,
                     stdout |-> Unbound, raised |-> ""]
               ELSE exec(snippet, exec_globals(bridges[b]), builtins)
    IN  /\ bridges' = [bridges EXCEPT ![b].globals = run.globals]
        /\ builtins' = run.builtins
        /\ tool_result' = [tool |-> "code_interpreter", bridge |-> b,
                           snippet |-> snippet,
                           result |-> code_interpreter(snippet, run)]
        /\ ToolFrame

\* bridge.reset_interpreter()
ResetInterpreter(b) ==
    /\ bridges' = [bridges EXCEPT ![b].globals = EmptyNamespace]
    /\ tool_result' = [tool |-> "reset_interpreter", bridge |-> b]
    /\ UNCHANGED builtins
    /\ ToolFrame

NextInterp ==
    \/ \E b \in BridgeIds, snippet \in Snippets : CodeInterpreter(b, snippet)
    \/ \E b \in BridgeIds : ResetInterpreter(b)

SpecInterp == InitInterp /\ [][NextInterp]_vars

\* a read of the name through the bridge finds it
Visible(bs, names, b, n) == lookup(bs[b].globals, names, n) # Unbound

Binds(snippet) == snippet.op \in {"assign", "assign_raise", "builtin"}

\* C27: a name bound by a code_interpreter call on a bridge stays visible to
\* every later code_interpreter call on the same bridge until
\* reset_interpreter is called; after reset_interpreter no earlier binding is
\* visible; a binding made through one bridge instance is never visible
\* through another bridge instance.
C27_Step ==
    /\ tool_result'.tool = "code_interpreter" =>
           LET b == tool_result'.bridge
               snippet == tool_result'.snippet
           IN  /\ Binds(snippet) => Visible(bridges', builtins', b, snippet.name)
               /\ \A n \in Names :
                      Visible(bridges, builtins, b, n)
                          => Visible(bridges', builtins', b, n)
               /\ \A other \in BridgeIds \ {b} : \A n \in Names :
                      Visible(bridges', builtins', other, n)
                          => Visible(bridges, builtins, other, n)
    /\ tool_result'.tool = "reset_interpreter" =>
           \A n \in Names : ~Visible(bridges', builtins', tool_result'.bridge, n)

C27_NamespacePerBridge == [][C27_Step]_vars


(***************************************************************************)
(* ToolsBridge: web_search.  The search providers are outside the program:  *)
(* each attempt draws the provider's outcome from ProviderOutcomes.  A      *)
(* report is the list of its attempts, each with the number of non-empty    *)
(* lines of the provider's text and whether it is the "[Zero Results]" one. *)
(***************************************************************************)
\* most fallback queries handed to one search
MaxFallback == 2

\* the non-empty lines of the "[Zero Results]" text
ZeroResultLines == 3

\* what the provider does with one query: it raises, it raises a ValueError
\* (Firecrawl: the client cannot be made or rejects the request), it answers
\* with an error (Firecrawl: result.success is false), it answers with no
\* result, it answers with one result
ProviderOutcomes(selected_provider) ==
    IF selected_provider = "firecrawl"
    THEN {"raises", "raises_value_error", "error", "empty", "hits"}
    ELSE {"raises", "empty", "hits"}

\* the provider chosen for provider="auto", "firecrawl" or "tavily"
select_provider(provider, firecrawl_key) ==
    IF provider = "auto"
    THEN IF firecrawl_key THEN "firecrawl" ELSE "tavily"
    ELSE provider

\* ToolsBridge._init_tavily: the tool is made once per bridge; import_ok tells
\* whether making it succeeds
_init_tavily(tavily, import_ok) ==
    IF tavily # "uninitialized" THEN tavily
    ELSE IF import_ok THEN "tool" ELSE "None"

Failure(error) == [success |-> FALSE, output |-> <<>>, error |-> error]

\* the text of an answer: the "[Zero Results]" text; the results, which print
\* as one line (Tavily: str(content)) or as three lines an item (Firecrawl)
Found(outcome, hit_lines) ==
    [success |-> TRUE, error |-> "",
     output |-> <<[zero |-> outcome = "empty",
                   lines |-> IF outcome = "empty" THEN ZeroResultLines
                             ELSE hit_lines]>>]

\* _search_tavily on a bridge whose tool was initialised
_search_tavily(tavily, outcome) ==
    IF tavily = "None" THEN Failure("Tavily not available. Check TAVILY_API_KEY.")
    ELSE IF outcome = "raises" THEN Failure("Tavily API Error")
    ELSE Found(outcome, 1)

\* _search_firecrawl
_search_firecrawl(outcome) ==
    CASE outcome = "raises" -> Failure("Firecrawl API Error")
      [] outcome = "raises_value_error" -> Failure("Firecrawl config error")
      [] outcome = "error" -> Failure("Firecrawl API returned error")
      [] OTHER -> Found(outcome, 3)

Max(a, b) == IF a >= b THEN a ELSE b

\* _do_search from attempt idx on: n queries, outcomes[i] is what the
\* provider does with query i, attempts_output the reports gathered so far
RECURSIVE _do_search(_, _, _, _, _, _, _)
_do_search(idx, n, selected_provider, tavily, outcomes, min_results, attempts_output) ==
    IF idx > n
    THEN [success |-> TRUE, output |-> attempts_output, error |-> ""]
    ELSE LET res == IF selected_provider = "firecrawl"
                    THEN _search_firecrawl(outcomes[idx])
                    ELSE _search_tavily(tavily, outcomes[idx])
             gathered == attempts_output \o res.output
         IN  IF ~res.success THEN res
             ELSE IF res.output[1].lines >= Max(min_results, 1)
             THEN [success |-> TRUE, output |-> gathered, error |-> ""]
             ELSE _do_search(idx + 1, n, selected_provider, tavily, outcomes,
                             min_results, gathered)

\* the values of fallback_queries: None, a string, a list
FallbackInputs ==
    {[shape |-> "none", n |-> 0], [shape |-> "str", n |-> 1]}
    \cup [shape : {"list"}, n : 0..MaxFallback]

InitSearch ==
    /\ bridges = [b \in BridgeIds |-> NewBridge]
    /\ builtins = EmptyNamespace
    /\ tool_result = NoToolResult
    /\ doc = <<>>
    /\ StoreIdle
    /\ CtxIdle
    /\ run_objective = <<>>
    /\ UpgradeIdle
    /\ PathIdle
    /\ workflow = NoWorkflow
    /\ RunIdle
    /\ LoopIdle

\* call_tool("web_search", query=..., provider=..., fallback_queries=...,
\* min_results=...) on bridge b
WebSearch(b, provider, firecrawl_key, fallback, min_results, import_ok, outcomes) ==
    LET selected_provider == select_provider(provider, firecrawl_key)
        tavily == IF selected_provider = "firecrawl" THEN bridges[b].tavily
                  ELSE _init_tavily(bridges[b].tavily, import_ok)
    IN  \* the inputs that are not read are held at one value
        /\ provider # "auto" => ~firecrawl_key
        /\ (selected_provider = "firecrawl" \/ bridges[b].tavily # "uninitialized")
               => import_ok
        /\ bridges' = [bridges EXCEPT ![b].tavily = tavily]
        /\ tool_result' =
               [tool |-> "web_search", bridge |-> b,
                selected_provider |-> selected_provider,
                available |-> selected_provider = "firecrawl" \/ tavily = "tool",
                all_empty |-> \A i \in DOMAIN outcomes : outcomes[i] = "empty",
                result |-> _do_search(1, 1 + fallback.n, selected_provider, tavily,
                                      outcomes, min_results, <<>>)]
        /\ UNCHANGED builtins
        /\ ToolFrame

NextSearch ==
    \E b \in BridgeIds, provider \in {"auto", "firecrawl", "tavily"},
       firecrawl_key \in BOOLEAN, fallback \in FallbackInputs,
       min_results \in {0, 4}, import_ok \in BOOLEAN :
        \E outcomes \in [1..(1 + fallback.n)
                             -> ProviderOutcomes(select_provider(provider, firecrawl_key))] :
            WebSearch(b, provider, firecrawl_key, fallback, min_results, import_ok,
                      outcomes)

SpecSearch == InitSearch /\ [][NextSearch]_vars

\* the report has the "[Zero Results]" text
HasZeroResults(output) == \E i \in 1..Len(output) : output[i].zero

\* C28: web_search always returns success=true with a human-readable report,
\* for every outcome of the search provider and every list of fallback
\* queries; when the provider returns empty result lists the report contains
\* the literal "Zero Results".
C28_SearchAlwaysReports ==
    tool_result.tool = "web_search" =>
        /\ tool_result.result.success
        /\ tool_result.result.output # <<>>
        /\ (/\ tool_result.available
            /\ tool_result.all_empty)
               => HasZeroResults(tool_result.result.output)


(***************************************************************************)
(* CapabilityUpgradeWorkflow.run (workflow/capability_upgrade_workflow.py).  *)
(* The context package (ContextOrchestrator, the envelope helpers) is       *)
(* outside the sources, so what it hands back to run is left open: the      *)
(* payload of the item stored for an envelope is any payload, a str or an   *)
(* object such as AgentPayload, with the message of the response or         *)
(* another text; what extract_payload_summary returns for a payload is      *)
(* nothing, the text of the payload, or another text; dispatch selects any  *)
(* of the stored records.  The id of a record is its position in the        *)
(* orchestrator's store.                                                    *)
(***************************************************************************)
\* most calls of run on one workflow
MaxRuns == 2

\* the messages of the stage-one agent
StageOneMessages == {"m1", "m2"}

\* the texts a payload may carry: none, or a message
PayloadTexts == {"", "m1"}

\* what analyze returns: an async generator, or a response whose metadata
\* holds no envelope, one that does not parse, or the envelope of the message
StageOneResponses ==
    {[kind |-> "streaming", envelope |-> "none", message |-> ""]}
    \cup [kind : {"response"}, envelope : {"none", "malformed"}, message : {"m1"}]
    \cup [kind : {"response"}, envelope : {"ok"}, message : StageOneMessages]

\* capability_kwargs without a metacognitive_report
NoReport == <<"-">>
\* the metacognitive_report a caller may put into capability_kwargs
OwnReports == {NoReport, <<"own">>}

\* what extract_payload_summary may return for a payload with the text:
\* nothing, the text, or a text of its own
Summaries(text) == {"", text, "digest"}

\* the payloads of the items the orchestrator hands out: the kind of the
\* payload, the text it carries, and what extract_payload_summary returns
\* for it
ItemPayloads ==
    {p \in [kind : {"str", "object"}, message : PayloadTexts,
            summary : {"", "m1", "digest"}] : p.summary \in Summaries(p.message)}

\* no envelope, nothing to keep
NoPayload == [kind |-> "none", message |-> "", summary |-> ""]

\* ContextOrchestrator.ingest: the store with one more record, whose id is
\* the last position; its item carries the payload
ingest(records, payload) == Append(records, [payload |-> payload])

\* ContextOrchestrator.dispatch: some of the stored records, in store order
Packages(records) ==
    {pkg \in SUBSET (1..Len(records)) : TRUE}

\* extract_payload_summary(payload): the summary the payload comes with
extract_payload_summary(payload) == payload.summary

\* str(item.payload) of a payload that is not a str
str_payload(payload) ==
    IF payload.message = "" THEN "AgentPayload(message='')"
    ELSE "AgentPayload(message='m1')"

\* the ingested record is taken as selected whatever the package holds
record_selected_always(package, record_id) == TRUE
\* _dispatch_context: any(item.record_id == record_id for item in package.items)
record_selected(package, record_id) == record_id \in package

\* the ids of a package in store order
RECURSIVE Ordered(_)
Ordered(ids) ==
    IF ids = {} THEN <<>>
    ELSE LET m == CHOOSE i \in ids : \A j \in ids : i <= j
         IN  <<m>> \o Ordered(ids \ {m})

\* the section _compose_report makes of an item: the summary of its payload,
\* or without a summary the payload itself when it is a str and str(payload)
\* when it is not
section_of(item) ==
    IF extract_payload_summary(item.payload) # ""
    THEN extract_payload_summary(item.payload)
    ELSE IF item.payload.kind = "str" THEN item.payload.message
    ELSE str_payload(item.payload)

\* _compose_report: the non-empty sections of the items, in package order
_compose_report(records, package) ==
    LET items == Ordered(package)
        sections == [i \in 1..Len(items) |-> section_of(records[items[i]])]
    IN  SelectSeq(sections, LAMBDA x : x # "")

\* capability_inputs.setdefault("metacognitive_report", metacognitive_report)
capability_inputs(own_report, metacognitive_report) ==
    IF own_report # NoReport THEN own_report ELSE metacognitive_report

NewWorkflow ==
    [pc |-> "idle", runs |-> 0, records |-> <<>>, own_report |-> NoReport,
     response |-> [kind |-> "none", envelope |-> "none", message |-> ""],
     record_id |-> 0, package |-> {}, report |-> <<>>, evaluate_calls |-> <<>>,
     called |-> FALSE, error |-> "", failed |-> ""]

InitWorkflow ==
    /\ workflow = NewWorkflow
    /\ doc = <<>>
    /\ StoreIdle
    /\ CtxIdle
    /\ run_objective = <<>>
    /\ UpgradeIdle
    /\ PathIdle
    /\ ToolsIdle
    /\ RunIdle
    /\ LoopIdle

WorkflowFrame ==
    UNCHANGED <<doc, storeVars, ctxVars, run_objective, upgradeVars, pathVars, toolVars,
                runVars, loopVars>>

\* run(analyze_kwargs=..., capability_kwargs=...) up to the await of analyze
RunCall(own_report) ==
    /\ workflow.pc \in {"idle", "returned", "raised"}
    /\ workflow.runs < MaxRuns
    /\ workflow' = [workflow EXCEPT !.pc = "analyze", !.runs = @ + 1,
                                    !.own_report = own_report,
                                    !.response = NewWorkflow.response,
                                    !.record_id = 0, !.package = {}, !.report = <<>>,
                                    !.called = FALSE, !.error = "", !.failed = ""]
    /\ WorkflowFrame

\* the run ends with the exception
Raise(w, failed, error) ==
    [w EXCEPT !.pc = "raised", !.failed = failed, !.error = error]

\* analyze returns: run goes on to the await of evaluate, or raises; payload
\* is the payload of the item the orchestrator keeps for the envelope, and
\* package the records dispatch selects
AnalyzeReturns(response, payload, package) ==
    LET w == [workflow EXCEPT !.response = response]
        records == ingest(workflow.records, payload)
        record_id == Len(records)
        ingested == [w EXCEPT !.records = records, !.record_id = record_id]
        report == _compose_report(records, package)
        composed == [ingested EXCEPT !.package = package, !.report = report]
    IN  /\ workflow.pc = "analyze"
        /\ IF response.kind = "streaming"
           THEN /\ package = {}
                /\ payload = NoPayload
                /\ workflow' = Raise(w, "streaming", "ValueError")
           ELSE IF response.envelope # "ok"
           THEN /\ package = {}
                /\ payload = NoPayload
                /\ workflow' = Raise(w, response.envelope, "ValueError")
           ELSE /\ package \in Packages(records)
                /\ payload \in ItemPayloads
                /\ IF ~record_selected(package, record_id)
                   THEN workflow' = Raise([ingested EXCEPT !.package = package],
                                          "not selected", "ValueError")
                   ELSE IF report = <<>>
                   THEN workflow' = Raise(composed, "empty report", "ValueError")
                   ELSE workflow' =
                            [composed EXCEPT
                                !.pc = "evaluate",
                                !.called = TRUE,
                                !.evaluate_calls =
                                    Append(@, capability_inputs(workflow.own_report,
                                                                report))]
        /\ WorkflowFrame

\* analyze raises: the exception leaves run as it is
AnalyzeRaises ==
    /\ workflow.pc = "analyze"
    /\ workflow' = Raise(workflow, "analyze", "AgentError")
    /\ WorkflowFrame

\* evaluate returns and run returns the result
EvaluateReturns ==
    /\ workflow.pc = "evaluate"
    /\ workflow' = [workflow EXCEPT !.pc = "returned"]
    /\ WorkflowFrame

\* evaluate raises: the exception leaves run as it is
EvaluateRaises ==
    /\ workflow.pc = "evaluate"
    /\ workflow' = Raise(workflow, "evaluate", "AgentError")
    /\ WorkflowFrame

NextWorkflow ==
    \/ \E own_report \in OwnReports : RunCall(own_report)
    \/ \E response \in StageOneResponses :
           \E payload \in ItemPayloads \cup {NoPayload} :
               \E package \in SUBSET (1..MaxRuns) :
                   AnalyzeReturns(response, payload, package)
    \/ AnalyzeRaises
    \/ EvaluateReturns
    \/ EvaluateRaises

SpecWorkflow == InitWorkflow /\ [][NextWorkflow]_vars

\* the text holds the message: it is the message, or the str of a payload
\* with the message
Mentions(text, message) ==
    /\ message # ""
    /\ \/ text = message
       \/ \E payload \in ItemPayloads : payload.message = message /\ text = str_payload(payload)

\* the message is in a section of the report
Contains(report, message) ==
    \E i \in 1..Len(report) : Mentions(report[i], message)

\* the report handed to evaluate in the current run
PassedReport == workflow.evaluate_calls[Len(workflow.evaluate_calls)]

\* the section of the record ingested in the current run
NewSection == section_of(workflow.records[workflow.record_id])

\* evaluate was called in the current run only after a non-streaming response
\* with an envelope, the ingest of the envelope, and a package that holds the
\* new record and gives a non-empty report
CalledAfterContext ==
    workflow.called =>
        /\ workflow.response.kind = "response"
        /\ workflow.response.envelope = "ok"
        /\ workflow.record_id > 0
        /\ workflow.record_id = Len(workflow.records)
        /\ workflow.record_id \in workflow.package
        /\ workflow.report = _compose_report(workflow.records, workflow.package)
        /\ workflow.report # <<>>

\* a failed step ends the run with ValueError and without a call of evaluate
FailureRaises ==
    workflow.failed \in {"streaming", "none", "malformed", "not selected", "empty report"}
        => /\ workflow.pc = "raised"
           /\ workflow.error = "ValueError"
           /\ ~workflow.called

\* each step that fails is one of the failures
StepsChecked ==
    workflow.pc \in {"evaluate", "returned"} => workflow.called /\ workflow.failed = ""

SectionWith(sections, header) ==
    LET found == SelectSeq(sections, LAMBDA sec : sec.header = header)
    IN  IF found = <<>> THEN <<>> ELSE found[1].content

\* the header under which the bridge puts the plan of Stage 3 into a context
Stage3PlanHeader == STAGE3_SECTION_DESCRIPTORS[1][2]

\* C30: when Stage 4 starts the tool loop it seeds LIVE_EXECUTION_PLAN with
\* "Objective: {objective}", "## Steps" and the Stage 3 plan: the {plan} part
\* equals the content of the Stage 3 plan section that the Memory Bridge put
\* into the Stage 4 context, so the seeded plan lists the Stage 3 steps
\* whenever Stage 3 produced a plan.
C30_Step ==
    (lpc = "start" /\ lpc' = "head" /\ hasOrchestrator) =>
        LET plan == SectionWith(ctx', Stage3PlanHeader)
            seed == initial_plan(plan, ObjectiveOf(ctx'))
        IN  /\ written'[LIVE_PLAN_MARKER] = [set |-> TRUE, x |-> seed]
            /\ read_live_plan(doc').text = strip(seed)

C30_SeedHoldsStage3Plan == [][C30_Step]_vars


\* the "Last revision for tool: ..." entries of an audit text, in text order
AuditEntries(text) == SelectSeq(text, LAMBDA tok : tok.k = "AUDIT")

\* the text of the WATCHER_AUDIT anchor
AuditText(bytes) == read_form_section(bytes, WATCHER_AUDIT_MARKER).text

\* C31: each plan revision appends to WATCHER_AUDIT: after the watcher has
\* revised the plan for n tool calls in one run, WATCHER_AUDIT contains the
\* "Last revision for tool: ..." entries of all n revisions, the earlier
\* entries unchanged.
C31_Step ==
    (WatcherReplied /\ watcherCall'.revised) =>
        AuditEntries(AuditText(doc')) =
            Append(AuditEntries(AuditText(doc)),
                   AuditHead(dispatched[watcherCall'.call].tool))

C31_AuditAppends == [][C31_Step]_vars


\* the context begins with the Objective section, which carries the objective
BeginsWithObjective(sections, objective) ==
    /\ sections # <<>>
    /\ sections[1].header = "Objective"
    /\ sections[1].content = strip(objective)

\* C32: every context string that the runner passes to an agent, for Stage
\* 1, 2A, 2B, 2C (strategy upgrade), 3, 4 and the capability upgrade, begins
\* with the Objective section carrying the run's objective.
C32_ContextBeginsWithObjective ==
    (rpc.phase = "await" /\ builder # "") => BeginsWithObjective(ctx, run_objective)



(***************************************************************************)
(* The session counter of the upgrade agent (SpecUpgrade).                 *)
(***************************************************************************)
\* the action header of the reply
ActionOf(text) == _parse_decision_metadata(text).action

C33_Step ==
    Evaluated =>
        /\ (upgrade'.applied /\ ActionOf(upgrade'.reply) = <<"create_new", 0>>)
               => upgrade'._session_new_counts
                      = [upgrade._session_new_counts
                            EXCEPT ![primary_id(extract_patch(upgrade'.reply))[1]] = @ + 1]
        /\ (upgrade'.applied /\ ActionOf(upgrade'.reply) = <<"enhance_existing", 0>>)
               => upgrade'._session_new_counts = upgrade._session_new_counts
        /\ (/\ ActionOf(upgrade'.reply) = <<"create_new", 0>>
            /\ QuotaReason(upgrade'.apply_reason))
               => AtQuota(upgrade, primary_id(extract_patch(upgrade'.reply))[1])

\* C33: the session counter counts only new strategies: an applied
\* create_new adds one to the counter of its category, an applied
\* enhance_existing leaves every counter as it was, so a create_new is
\* rejected for the quota only in a category that holds
\* max_new_per_category new strategies of this session.
C33_CounterCountsNewOnly == [][C33_Step]_vars



(***************************************************************************)
(* Two runners, each with its own Stage2CapabilityUpgradeAgent, working on *)
(* the strategy library files.  A runner is a process of its own: the      *)
(* append of the base class under auto_apply_patch, the read of the        *)
(* library by _read_existing_strategy_ids and the append by apply_patch    *)
(* are three file operations, and the other runner may run between them.   *)
(***************************************************************************)
RunnerIds == {1, 2}
\* the calls of evaluate_text of a behaviour, both runners counted
MaxCalls == 2

\* the file at STRATEGY_LIBRARY_FILE and a file at another path
LibraryFiles == {"default", "configured"}

\* a library at another path: it holds the strategy I3 and not I1
OtherLibrary == <<H3("I. info"), NL, H4("d "), Id("I", 3), NL>>

\* a patch with two entries, the new I4 and an entry headed I1
TwoEntries ==
    <<H3("strategies"), NL, H4("foo "), Id("I", 4), NL, Word("-"), SP, Word("z"), NL,
      H4("a "), Id("I", 1), NL, Word("-"), SP, Word("y")>>

\* an enhancement that gives the entry of its target again
RestatedEntry == <<H4("a "), Id("I", 1), NL, Word("-"), SP, Word("more")>>

RunnerReplies ==
    {Create(TwoRefs, "I", 3), Create(TwoRefs, "A", 2), Enhance(<<IdWord("I", 1)>>),
     Reply(<<Word("APPLY")>>, <<Act("create_new")>>, <<>>, TwoRefs, Justified, TwoEntries),
     Reply(<<Word("APPLY")>>, <<Act("enhance_existing")>>, <<IdWord("I", 1)>>, TwoRefs,
           Justified, RestatedEntry)}

\* the file _read_existing_strategy_ids reads: STRATEGY_LIBRARY_FILE, whatever
\* library_file the agent was configured with
existence_file(library_file) == "default"

\* the file apply_patch appends to: config.library_file
append_file(library_file) == library_file

\* the counters of all agents added up
session_counts_shared(agents, i) ==
    [l \in Letters |-> agents[1]._session_new_counts[l] + agents[2]._session_new_counts[l]]

\* self._session_new_counts: a dict of the agent instance
session_counts(agents, i) == agents[i]._session_new_counts

NoCheck == [apply |-> FALSE, new_category |-> "", reply |-> <<>>]

NewRunnerAgent ==
    [pc |-> "idle", _session_new_counts |-> [l \in Letters |-> 0], calls |-> 0,
     check |-> NoCheck, applied |-> FALSE,
     appended |-> [l \in Letters |-> 0], created |-> {}]

InitRunners ==
    /\ doc = <<>>
    /\ StoreIdle
    /\ CtxIdle
    /\ run_objective = <<>>
    /\ RunIdle
    /\ LoopIdle
    /\ AuxIdle
    /\ upgrade = NoUpgradeAgent
    /\ \E library_file \in LibraryFiles, auto \in BOOLEAN :
           runners = [library_file |-> library_file,
                      auto_apply_patch |-> auto,
                      files |-> [f \in LibraryFiles |->
                                    IF f = "default" THEN StrategyLibrary ELSE OtherLibrary],
                      agents |-> [i \in RunnerIds |-> NewRunnerAgent]]

RunnersFrame ==
    UNCHANGED <<doc, upgrade, storeVars, ctxVars, run_objective, runVars, loopVars, auxVars>>

\* the verdict of evaluate_text on the reply, the existence checks reading
\* the text `library` and the quota check the counters `counts`
verdict_on(response_text, library, counts) ==
    LET patch_markdown == extract_patch(response_text)
        decision_info == _parse_decision_metadata(response_text)
        checked == decision_info.decision = <<"APPLY", 0>> /\ patch_markdown # <<>>
        verdict == _should_apply_patch(decision_info, patch_markdown, library, counts)
    IN  [apply |-> checked /\ verdict.apply,
         new_category |-> IF checked /\ verdict.apply THEN verdict.new_category ELSE "",
         reply |-> response_text]

\* the calls of evaluate_text started so far
calls_started(agents) ==
    LET started(i) == agents[i].calls + (IF agents[i].pc # "idle" THEN 1 ELSE 0)
    IN  started(1) + started(2)

\* evaluate_text of the agent of runner i up to the return of
\* super().evaluate_text: the reply of the model, and with auto_apply_patch
\* the append of its patch to the file at library_file
SuperEvaluateText(i, response_text) ==
    /\ runners.library_file # "none"
    /\ runners.agents[i].pc = "idle"
    /\ calls_started(runners.agents) < MaxCalls
    /\ runners' = [runners EXCEPT
           !.files[append_file(runners.library_file)] =
               IF runners.auto_apply_patch /\ extract_patch(response_text) # <<>>
               THEN apply_patch(@, extract_patch(response_text)) ELSE @,
           !.agents[i].pc = "replied",
           !.agents[i].check = [NoCheck EXCEPT !.reply = response_text]]
    /\ RunnersFrame

\* evaluate_text from the return of the base class to the return of
\* _should_apply_patch
CheckPatch(i) ==
    /\ runners.library_file # "none"
    /\ runners.agents[i].pc = "replied"
    /\ runners' = [runners EXCEPT
           !.agents[i].pc = "checked",
           !.agents[i].check =
               verdict_on(runners.agents[i].check.reply,
                          runners.files[existence_file(runners.library_file)],
                          session_counts(runners.agents, i))]
    /\ RunnersFrame

\* the rest of evaluate_text: apply_patch and the counter when the patch was
\* accepted
ApplyChecked(i) ==
    /\ runners.library_file # "none"
    /\ runners.agents[i].pc = "checked"
    /\ LET check == runners.agents[i].check
           patch == extract_patch(check.reply)
           creates == check.apply /\ ActionOf(check.reply) = <<"create_new", 0>>
       IN  runners' = [runners EXCEPT
               !.files[append_file(runners.library_file)] =
                   IF check.apply THEN apply_patch(@, patch) ELSE @,
               !.agents[i]._session_new_counts =
                   IF check.apply /\ check.new_category # ""
                   THEN [@ EXCEPT ![check.new_category] = @ + 1] ELSE @,
               !.agents[i].appended =
                   IF check.apply /\ check.new_category # ""
                   THEN [@ EXCEPT ![check.new_category] = @ + 1] ELSE @,
               !.agents[i].created =
                   IF creates THEN @ \cup {primary_id(patch)} ELSE @,
               !.agents[i].applied = check.apply,
               !.agents[i].check = NoCheck,
               !.agents[i].calls = @ + 1,
               !.agents[i].pc = "idle"]
    /\ RunnersFrame

NextRunners ==
    \/ \E i \in RunnerIds, r \in RunnerReplies : SuperEvaluateText(i, r)
    \/ \E i \in RunnerIds : CheckPatch(i)
    \/ \E i \in RunnerIds : ApplyChecked(i)

SpecRunners == InitRunners /\ [][NextRunners]_vars

\* the step is the call of the base class of runner i
Replies(i) == runners.agents[i].pc = "idle" /\ runners'.agents[i].pc = "replied"

\* the step is the check of runner i
Checks(i) == runners.agents[i].pc = "replied" /\ runners'.agents[i].pc = "checked"

\* the step is the apply of runner i
Applies(i) == runners.agents[i].pc = "checked" /\ runners'.agents[i].pc = "idle"

C34_Local ==
    \A i \in RunnerIds :
        runners.agents[i]._session_new_counts = runners.agents[i].appended

C34_Step ==
    \A i \in RunnerIds :
        /\ (Checks(i) /\ runners.library_file = "default")
               => runners'.agents[i].check
                      = verdict_on(runners.agents[i].check.reply, runners.files["default"],
                                   runners.agents[i]._session_new_counts)
        /\ (Applies(i) /\ runners.agents[i].check.apply)
               => runners'.files[runners.library_file]
                      = apply_patch(runners.files[runners.library_file],
                                    extract_patch(runners.agents[i].check.reply))
        /\ (Replies(i) \/ Checks(i) \/ Applies(i))
               => \A j \in RunnerIds \ {i} : runners'.agents[j] = runners.agents[j]

\* C34: the existence check, the quota counter and the append are local to
\* one agent instance and not atomic across instances: the counter of an
\* agent counts the patches this agent applied and no step of the other
\* agent changes it, the verdict of a check rests on the library as it is
\* when it is read and on the agent's own counter, and an accepted patch is
\* appended to the library as it is at the append, whatever the other
\* runner appended since the check; so two runners sharing the default file
\* can both create the same new id.
C34_ChecksAreLocal == []C34_Local /\ [][C34_Step]_vars

\* both runners created I3 in the shared default library, which holds two
\* entries headed I3
C34_Witness ==
    /\ runners.library_file = "default"
    /\ \A i \in RunnerIds : <<"I", 3>> \in runners.agents[i].created
    /\ Heads(runners.files["default"], <<"I", 3>>) = 2



C38_Step ==
    \A i \in RunnerIds :
        Checks(i)
            => runners'.agents[i].check
                   = verdict_on(runners.agents[i].check.reply,
                                runners.files[runners.library_file],
                                runners.agents[i]._session_new_counts)

\* C38: the existence checks of the acceptance policy (the new id absent for
\* create_new, the TARGET_ID present for enhance_existing) read the library
\* file the accepted patch is appended to, also when library_file is not
\* the default strategy_library/strategy.md: the verdict of every check is
\* the policy evaluated on the file at library_file.
C38_ChecksReadAppendedFile == [][C38_Step]_vars

\* the entries of the library of one agent instance: the other runner has
\* made no call and the library is the default file
OneInstance ==
    /\ runners.library_file = "default"
    /\ runners.agents[2] = NewRunnerAgent

\* C39: for one agent instance, after any sequence of evaluate_text calls
\* (create_new and enhance_existing, patches with one or several entries)
\* every strategy id heads at most one `#### ... (ID)` entry of the library
\* file.
C39_IdsHeadOneEntry ==
    OneInstance =>
        \A id \in Letters \X (1..4) : Heads(runners.files["default"], id) <= 1



\* the values of the AUTO_APPLY_STATUS strings of the text
StatusValues(text) == {text[i].v : i \in {m \in 1..Len(text) : text[m].k = "STATUS"}}

\* the call appended its patch to the library
Appended == upgrade'.library # upgrade.library

C40_Step ==
    Evaluated =>
        StatusValues(upgrade'.result_text) = {IF Appended THEN "applied" ELSE "skipped"}

\* C40: the AUTO_APPLY_STATUS value of the text evaluate_text returns
\* reflects the outcome of this call: applied exactly when the call appended
\* the patch to the library, skipped exactly when it did not, also when the
\* reply of the model already holds an AUTO_APPLY_STATUS string.
C40_StatusReflectsOutcome == [][C40_Step]_vars



\* the context holds a section made from the descriptor
HasSectionOf(sections, descriptor) ==
    \E i \in 1..Len(sections) :
        sections[i].header = descriptor[2] /\ sections[i].source = descriptor[3]

\* C37: an anchor whose content is only the placeholder token (never
\* written, or written with empty content) is treated as empty by the
\* Memory Bridge: it contributes no section to any stage context or watcher
\* audit context.
C37_PlaceholderIsEmpty ==
    builder # "" =>
        \A i \in 1..Len(BuilderDescriptors(builder)) :
            FillOf(doc, BuilderDescriptors(builder)[i][1]) = "placeholder"
                => ~HasSectionOf(ctx, BuilderDescriptors(builder)[i])



\* C35: update(doc, A, x) changes only A's block: for every other anchor B,
\* read(doc, B) returns after the update what it returned before it, for
\* every content x, also when A was absent and its block is inserted after
\* the header or appended at the end of the file.
C35_UpdateFrame ==
    lastOp.kind = "update" =>
        \A b \in StoreAnchors \ {lastOp.a} :
            read_form_section(doc, b) = read_form_section(lastOp.pre, b)



(***************************************************************************)
(* The three readers of an anchor (SpecStore).                             *)
(***************************************************************************)
\* MemoryBridge.load_stage_output on an existing file: "" is <<>>
load_stage_output(bytes, marker) ==
    LET content == read_text(bytes)
        start_idx == find(content, START(marker), 1)
        end_idx == find(content, END(marker), 1)
    IN  IF start_idx = 0 \/ end_idx = 0 THEN <<>>
        ELSE IF end_idx <= start_idx THEN <<>>
        ELSE strip(SubSeq(content, start_idx + 1, end_idx - 1))

\* the three readers return the same for the anchor
ReadersAgree(bytes, a) ==
    LET read == read_form_section(bytes, a)
        scan == _load_anchor_sections(bytes, a)
    IN  /\ scan.has = read.found
        /\ scan.text = read.text
        /\ load_stage_output(bytes, a) = read.text

\* C36: the readers agree: for every document reachable from a template
\* (each anchor at most once) by update and ensure operations and every
\* anchor A, _load_anchor_sections, MemoryBridge.load_stage_output and
\* read_form_section return the same trimmed content for A, a missing
\* anchor being absent or empty for all three.
C36_ReadersAgree == \A a \in StoreAnchors : ReadersAgree(doc, a)

====
